---- MODULE Spec2Model ----
(***************************************************************************)
(* Model of the strategy solver of the sudoku crate                        *)
(* (src/src/strategy/solver.rs): the solver's logs and lazily updated      *)
(* caches, the cache refresh (singly and batch insertion), the strategy    *)
(* routines and the strategy loop of try_solve / solve.                    *)
(*                                                                         *)
(* Cells are 0..80, digits 1..9, houses 0..26 (rows, then columns, then    *)
(* blocks), as in the code.  A Set<T> is modelled by the set of its        *)
(* members; wherever the code iterates a Set the model walks it in         *)
(* ascending order, as the bit iteration of src/src/bitset.rs does.        *)
(* Vec indices are 0-based in the code and 1-based here: a watermark w     *)
(* means "w entries consumed", the next entry is log[w + 1].               *)
(***************************************************************************)
EXTENDS Integers, Sequences, FiniteSets, TLC

VARIABLES
    puzzle,                 \* the Sudoku handed to from_sudoku
    strategies,             \* the strategy list the client solves with
    deductions,             \* StrategySolver.deductions
    deduced_entries,        \* StrategySolver.deduced_entries
    eliminated_entries,     \* StrategySolver.eliminated_entries
    n_solved,               \* StrategySolver.n_solved
    grid,                   \* StrategySolver.grid.state
    cell_poss_digits,       \* State<CellArray<Set<Digit>>>
    house_solved_digits,    \* State<HouseArray<Set<Digit>>>
    house_poss_positions,   \* State<HouseArray<DigitArray<Set<Position>>>>
    pc,                     \* position of the client / of try_solve
    op,                     \* the public operation in progress
    lens,                   \* try_solve: log lengths at entry
    n_deductions,           \* try_solve: deduced_entries.len() at loop top
    n_eliminated,           \* try_solve: eliminated_entries.len() at loop top
    rest_i,                 \* try_solve: index of the strategy of rest
    result,                 \* what the last public operation returned
    entry,                  \* the solver as the last public operation found it
    hist,                   \* observations of the run (no effect on it)
    set_bits,               \* a Set<T>: its backing integer
    iter_bits,              \* the Iter<T> made from it: its backing integer
    yielded,                \* the indices Iter::next has returned so far
    set_result,             \* what the last call on the set or iterator returned
    receiver,               \* the Sudoku whose solving methods the client calls
    limit_arg,              \* the limit handed to solve_at_most
    answer                  \* what the last method of the Sudoku returned

vars == <<puzzle, strategies, deductions, deduced_entries, eliminated_entries,
          n_solved, grid, cell_poss_digits, house_solved_digits,
          house_poss_positions, pc, op, lens, n_deductions, n_eliminated,
          rest_i, result, entry, hist, set_bits, iter_bits, yielded, set_result,
          receiver, limit_arg, answer>>

solver_vars == <<deductions, deduced_entries, eliminated_entries, n_solved,
                 grid, cell_poss_digits, house_solved_digits,
                 house_poss_positions>>

local_vars == <<lens, n_deductions, n_eliminated, rest_i>>

bitset_vars == <<set_bits, iter_bits, yielded, set_result>>

sudoku_vars == <<receiver, limit_arg, answer>>

\* the strategy solver and its client
strategy_vars == <<puzzle, strategies, solver_vars, pc, op, local_vars, result,
                   entry, hist>>

-----------------------------------------------------------------------------
(* Program constants *)

N_CELLS == 81

N_DIGITS == 9

N_HOUSES == 27

\* insert_entries: the largest pending count handled by singly insertion
SINGLY_MAX == 4

(* Bounds of the model *)

\* longest strategy list the client passes
MaxStrategies == 2

\* number of public operations the client calls in one run
MaxOps == 2

\* cap on the length of a log (never reached by the code as modelled)
MaxLog == 400

\* the strategy invocations of one try_solve are counted up to this number
MaxCalls == 3

-----------------------------------------------------------------------------
(* Board algebra *)

Cell == 0 .. (N_CELLS - 1)

Digit == 1 .. N_DIGITS

House == 0 .. (N_HOUSES - 1)

Pos == 0 .. 8

Row(c) == c \div 9

Col(c) == c % 9

Block(c) == (c \div 27) * 3 + ((c % 9) \div 3)

RowHouse(c) == Row(c)

ColHouse(c) == 9 + Col(c)

BlockHouse(c) == 18 + Block(c)

HousesOf(c) == <<RowHouse(c), ColHouse(c), BlockHouse(c)>>

RowPos(c) == Col(c)

ColPos(c) == Row(c)

BlockPos(c) == (Row(c) % 3) * 3 + (Col(c) % 3)

\* House::cell_at
CellAt(h, p) ==
    IF h < 9 THEN h * 9 + p
    ELSE IF h < 18 THEN p * 9 + (h - 9)
    ELSE (((h - 18) \div 3) * 3 + (p \div 3)) * 9 + ((h - 18) % 3) * 3 + (p % 3)

\* House::cells, in canonical order
HouseCells(h) == [i \in 1 .. 9 |-> CellAt(h, i - 1)]

Min(S) == CHOOSE x \in S : \A y \in S : x <= y

\* Cell::all and Digit::all, in ascending order
AllCells == [i \in 1 .. N_CELLS |-> i - 1]

AllDigits == [i \in 1 .. N_DIGITS |-> i]

\* the members of a set of digits in ascending order (iteration of a Set<Digit>)
AscendingDigits(S) == SelectSeq(AllDigits, LAMBDA d : d \in S)

\* Cell::neighbors: the 20 other cells of the three houses of a cell
Neighbors(c) ==
    SelectSeq(AllCells, LAMBDA x : x # c /\ (Row(x) = Row(c) \/ Col(x) = Col(c)
                                               \/ Block(x) = Block(c)))

\* Chute::minilines / MiniLine::cells: miniline i of a chute sits on the
\* chute's line i \div 3 and in its field i % 3
MiniLineCells(chute, i) ==
    IF chute < 3
    THEN [k \in 1 .. 3 |-> (chute * 3 + (i \div 3)) * 9 + (i % 3) * 3 + (k - 1)]
    ELSE [k \in 1 .. 3 |-> ((i % 3) * 3 + (k - 1)) * 9 + (chute - 3) * 3 + (i \div 3)]

\* MiniLine::neighbors: (line neighbours, field neighbours) as chute positions
LineNeighbors(i) ==
    <<(i \div 3) * 3 + (((i % 3) + 1) % 3), (i \div 3) * 3 + (((i % 3) + 2) % 3)>>

FieldNeighbors(i) ==
    <<(((i \div 3) + 1) % 3) * 3 + (i % 3), (((i \div 3) + 2) % 3) * 3 + (i % 3)>>

Candidate(c, d) == [cell |-> c, digit |-> d]

-----------------------------------------------------------------------------
(* The solver as a value: the fields of StrategySolver, plus the outcome   *)
(* of the routine that ran on it (err: it returned Err(Unsolvable);        *)
(* panic: an assertion failed; skipped: the kinds of pending placements    *)
(* its refreshes passed over because the cell had no candidate left), and  *)
(* placed: the digit _insert_candidate_cp_zs solved each cell with, 0 for  *)
(* a cell the caches have not solved; zeros: the kinds of cells whose      *)
(* empty candidate set made remove_impossibilities return Unsolvable.      *)

State(nd, le, st) == [next_deduced |-> nd, last_eliminated |-> le, state |-> st]

Self ==
    [deductions |-> deductions,
     deduced_entries |-> deduced_entries,
     eliminated_entries |-> eliminated_entries,
     n_solved |-> n_solved,
     grid |-> grid,
     cell_poss_digits |-> cell_poss_digits,
     house_solved_digits |-> house_solved_digits,
     house_poss_positions |-> house_poss_positions,
     err |-> FALSE,
     panic |-> FALSE,
     skipped |-> {},
     zeros |-> {},
     placed |-> hist.placed]

Unsolvable(s) == [s EXCEPT !.err = TRUE]

\* from_sudoku that loses the last given
from_sudoku_drop_last(sudoku) ==
    [deductions |-> <<>>,
     deduced_entries |->
         SelectSeq([i \in 1 .. N_CELLS - 1 |-> Candidate(i - 1, sudoku[i - 1])],
                   LAMBDA candidate : candidate.digit # 0),
     eliminated_entries |-> <<>>,
     n_solved |-> 0,
     grid |-> [c \in Cell |-> 0],
     cell_poss_digits |-> State(0, 0, [c \in Cell |-> Digit]),
     house_solved_digits |-> State(0, 0, [h \in House |-> {}]),
     house_poss_positions |-> State(0, 0, [h \in House |-> [d \in Digit |-> Pos]]),
     err |-> FALSE,
     panic |-> FALSE,
     skipped |-> {},
     zeros |-> {},
     placed |-> [c \in Cell |-> 0]]

\* from_sudoku that counts the givens as solved
from_sudoku_counted(sudoku) ==
    [deductions |-> <<>>,
     deduced_entries |->
         SelectSeq([i \in 1 .. N_CELLS |-> Candidate(i - 1, sudoku[i - 1])],
                   LAMBDA candidate : candidate.digit # 0),
     eliminated_entries |-> <<>>,
     n_solved |-> Cardinality({c \in Cell : sudoku[c] # 0}),
     grid |-> [c \in Cell |-> 0],
     cell_poss_digits |-> State(0, 0, [c \in Cell |-> Digit]),
     house_solved_digits |-> State(0, 0, [h \in House |-> {}]),
     house_poss_positions |-> State(0, 0, [h \in House |-> [d \in Digit |-> Pos]]),
     err |-> FALSE,
     panic |-> FALSE,
     skipped |-> {},
     zeros |-> {},
     placed |-> [c \in Cell |-> 0]]

\* StrategySolver::from_sudoku
from_sudoku(sudoku) ==
    [deductions |-> <<>>,
     deduced_entries |->
         SelectSeq([i \in 1 .. N_CELLS |-> Candidate(i - 1, sudoku[i - 1])],
                   LAMBDA candidate : candidate.digit # 0),
     eliminated_entries |-> <<>>,
     n_solved |-> 0,
     grid |-> [c \in Cell |-> 0],
     cell_poss_digits |-> State(0, 0, [c \in Cell |-> Digit]),
     house_solved_digits |-> State(0, 0, [h \in House |-> {}]),
     house_poss_positions |-> State(0, 0, [h \in House |-> [d \in Digit |-> Pos]]),
     err |-> FALSE,
     panic |-> FALSE,
     skipped |-> {},
     zeros |-> {},
     placed |-> [c \in Cell |-> 0]]

\* update_grid: the loop over deduced_entries[lo .. hi].  This loop and the
\* longer loops below are evaluated by halves, the second half on the outcome
\* of the first; the test of s.err at the top (never true in this loop) makes
\* the first half be evaluated before the second is entered.
RECURSIVE update_grid_range(_, _, _)
update_grid_range(s, lo, hi) ==
    IF s.err \/ lo > hi THEN s
    ELSE IF lo = hi
         THEN [s EXCEPT !.grid[s.deduced_entries[lo].cell] = s.deduced_entries[lo].digit]
         ELSE update_grid_range(update_grid_range(s, lo, (lo + hi) \div 2),
                                (lo + hi) \div 2 + 1, hi)

\* update_grid that writes nothing
update_grid_skip(s) == s

\* StrategySolver::update_grid
update_grid(s) == update_grid_range(s, 1, Len(s.deduced_entries))

\* StrategySolver::is_solved
is_solved(s) == s.n_solved = N_CELLS

\* push_new_candidate that records a placement the grid already holds
push_new_candidate_again(s, candidate, strategy) ==
    LET old_num == s.grid[candidate.cell]
    IN IF old_num = candidate.digit \/ old_num = 0
       THEN [s EXCEPT !.grid[candidate.cell] = candidate.digit,
                      !.deduced_entries = Append(@, candidate),
                      !.deductions = Append(@, strategy)]
       ELSE Unsolvable(s)

\* push_new_candidate that puts the placement at the front of the log
push_new_candidate_front(s, candidate, strategy) ==
    LET old_num == s.grid[candidate.cell]
    IN IF old_num = candidate.digit THEN s
       ELSE IF old_num = 0
            THEN [s EXCEPT !.grid[candidate.cell] = candidate.digit,
                           !.deduced_entries = <<candidate>> \o @,
                           !.deductions = Append(@, strategy)]
            ELSE Unsolvable(s)

\* push_new_candidate that takes a placement for a cell that holds another digit
push_new_candidate_over(s, candidate, strategy) ==
    LET old_num == s.grid[candidate.cell]
    IN IF old_num = candidate.digit THEN s
       ELSE [s EXCEPT !.grid[candidate.cell] = candidate.digit,
                      !.deduced_entries = Append(@, candidate),
                      !.deductions = Append(@, strategy)]

\* StrategySolver::push_new_candidate
push_new_candidate(s, candidate, strategy) ==
    LET old_num == s.grid[candidate.cell]
    IN IF old_num = candidate.digit THEN s
       ELSE IF old_num = 0
            THEN [s EXCEPT !.grid[candidate.cell] = candidate.digit,
                           !.deduced_entries = Append(@, candidate),
                           !.deductions = Append(@, strategy)]
            ELSE Unsolvable(s)

\* Set::unique
unique(set) ==
    IF Cardinality(set) = 1 THEN [ok |-> TRUE, some |-> TRUE, value |-> Min(set)]
    ELSE IF Cardinality(set) = 0 THEN [ok |-> FALSE, some |-> FALSE, value |-> 0]
    ELSE [ok |-> TRUE, some |-> FALSE, value |-> 0]

NakedSingles(candidate) == [kind |-> "NakedSingles", candidate |-> candidate]

Given(candidate) == [kind |-> "Given", candidate |-> candidate]

\* remove_impossibilities that never pushes the single it finds
remove_impossibilities_no_push(s, cell, impossible, find_naked_singles) ==
    LET cell_mask == s.cell_poss_digits.state[cell] \ impossible
        s1 == [s EXCEPT !.cell_poss_digits.state[cell] = cell_mask]
    IN IF cell_mask = {} THEN Unsolvable(s1) ELSE s1

\* remove_impossibilities returns Err(Unsolvable) for the empty candidate
\* set of a cell that the caches have solved ("solved") or not ("unsolved")
Zero(s, cell) ==
    [s EXCEPT !.err = TRUE,
              !.zeros = @ \cup {IF s.placed[cell] # 0 THEN "solved" ELSE "unsolved"}]

\* StrategySolver::remove_impossibilities
remove_impossibilities(s, cell, impossible, find_naked_singles) ==
    LET cell_mask == s.cell_poss_digits.state[cell] \ impossible
        s1 == [s EXCEPT !.cell_poss_digits.state[cell] = cell_mask]
        u == unique(cell_mask)
    IN IF find_naked_singles
       THEN IF ~u.ok THEN Zero(s1, cell)
            ELSE IF u.some
                 THEN push_new_candidate(s1, Candidate(cell, u.value),
                                         NakedSingles(Candidate(cell, u.value)))
                 ELSE s1
       ELSE IF cell_mask = {} THEN Zero(s1, cell) ELSE s1

\* _insert_candidate_cp_zs that forgets the block of the cell
insert_candidate_cp_zs_no_block(s, candidate) ==
    [s EXCEPT !.n_solved = @ + 1,
              !.cell_poss_digits.state[candidate.cell] = {},
              !.house_solved_digits.state[RowHouse(candidate.cell)] = @ \cup {candidate.digit},
              !.house_solved_digits.state[ColHouse(candidate.cell)] = @ \cup {candidate.digit}]

\* _insert_candidate_cp_zs that counts the cell twice
insert_candidate_cp_zs_twice(s, candidate) ==
    [s EXCEPT !.n_solved = @ + 2,
              !.cell_poss_digits.state[candidate.cell] = {},
              !.house_solved_digits.state[RowHouse(candidate.cell)] = @ \cup {candidate.digit},
              !.house_solved_digits.state[ColHouse(candidate.cell)] = @ \cup {candidate.digit},
              !.house_solved_digits.state[BlockHouse(candidate.cell)] = @ \cup {candidate.digit}]

\* StrategySolver::_insert_candidate_cp_zs
insert_candidate_cp_zs(s, candidate) ==
    [s EXCEPT !.n_solved = @ + 1,
              !.placed[candidate.cell] = candidate.digit,
              !.cell_poss_digits.state[candidate.cell] = {},
              !.house_solved_digits.state[RowHouse(candidate.cell)] = @ \cup {candidate.digit},
              !.house_solved_digits.state[ColHouse(candidate.cell)] = @ \cup {candidate.digit},
              !.house_solved_digits.state[BlockHouse(candidate.cell)] = @ \cup {candidate.digit}]

\* the placements the cell caches have not consumed yet
pending(s) == Len(s.deduced_entries) - s.cell_poss_digits.next_deduced

\* the pending placement candidate is passed over (continue) by the loop of
\* batch_insert_entries or insert_entries_singly (mode): its cell was never
\* solved ("unsolved"), was solved with the digit of candidate ("same") or
\* with another digit ("other")
Skip(s, candidate, mode) ==
    LET kind == IF s.placed[candidate.cell] = 0 THEN "unsolved"
                ELSE IF s.placed[candidate.cell] = candidate.digit THEN "same"
                ELSE "other"
    IN [s EXCEPT !.skipped = @ \cup {[mode |-> mode, kind |-> kind]}]

\* batch_insert_next without the check against the solved digits of the houses
batch_insert_next_unchecked(s) ==
    LET candidate == s.deduced_entries[s.cell_poss_digits.next_deduced + 1]
        s1 == [s EXCEPT !.cell_poss_digits.next_deduced = @ + 1,
                        !.house_solved_digits.next_deduced = @ + 1]
    IN IF s1.cell_poss_digits.state[candidate.cell] = {} THEN Skip(s1, candidate, "batch")
       ELSE insert_candidate_cp_zs(s1, candidate)

\* batch_insert_next that advances the watermark of cell_poss_digits only
batch_insert_next_one_watermark(s) ==
    LET candidate == s.deduced_entries[s.cell_poss_digits.next_deduced + 1]
        s1 == [s EXCEPT !.cell_poss_digits.next_deduced = @ + 1]
        hsd == s1.house_solved_digits.state
    IN IF s1.cell_poss_digits.state[candidate.cell] = {} THEN Skip(s1, candidate, "batch")
       ELSE IF \/ candidate.digit \in hsd[RowHouse(candidate.cell)]
               \/ candidate.digit \in hsd[ColHouse(candidate.cell)]
               \/ candidate.digit \in hsd[BlockHouse(candidate.cell)]
            THEN Unsolvable(s1)
            ELSE insert_candidate_cp_zs(s1, candidate)

\* batch_insert_entries, first loop, one iteration: the next pending
\* placement goes into house_solved_digits
batch_insert_next(s) ==
    LET candidate == s.deduced_entries[s.cell_poss_digits.next_deduced + 1]
        s1 == [s EXCEPT !.cell_poss_digits.next_deduced = @ + 1,
                        !.house_solved_digits.next_deduced = @ + 1]
        hsd == s1.house_solved_digits.state
    IN IF s1.cell_poss_digits.state[candidate.cell] = {} THEN Skip(s1, candidate, "batch")
       ELSE IF \/ candidate.digit \in hsd[RowHouse(candidate.cell)]
               \/ candidate.digit \in hsd[ColHouse(candidate.cell)]
               \/ candidate.digit \in hsd[BlockHouse(candidate.cell)]
            THEN Unsolvable(s1)
            ELSE insert_candidate_cp_zs(s1, candidate)

\* batch_insert_entries, first loop: n iterations, or fewer if one fails
RECURSIVE batch_insert_pending(_, _)
batch_insert_pending(s, n) ==
    IF s.err \/ n = 0 THEN s
    ELSE IF n = 1 THEN batch_insert_next(s)
    ELSE batch_insert_pending(batch_insert_pending(s, n \div 2), n - n \div 2)

\* batch_update_cell that does not pass over the cells without candidates
batch_update_cell_no_skip(s, cell, find_naked_singles) ==
    LET hsd == s.house_solved_digits.state
    IN remove_impossibilities(s, cell,
                              hsd[RowHouse(cell)] \cup hsd[ColHouse(cell)]
                                  \cup hsd[BlockHouse(cell)],
                              find_naked_singles)

\* batch_insert_entries, second loop, one iteration: the possibilities of
\* one cell from the masks of its houses
batch_update_cell(s, cell, find_naked_singles) ==
    IF s.cell_poss_digits.state[cell] = {} THEN s
    ELSE LET hsd == s.house_solved_digits.state
         IN remove_impossibilities(s, cell,
                                   hsd[RowHouse(cell)] \cup hsd[ColHouse(cell)]
                                       \cup hsd[BlockHouse(cell)],
                                   find_naked_singles)

\* batch_insert_entries, second loop, over the cells lo .. hi
RECURSIVE batch_update_cells(_, _, _, _)
batch_update_cells(s, lo, hi, find_naked_singles) ==
    IF s.err \/ lo > hi THEN s
    ELSE IF lo = hi THEN batch_update_cell(s, lo, find_naked_singles)
    ELSE batch_update_cells(
             batch_update_cells(s, lo, (lo + hi) \div 2, find_naked_singles),
             (lo + hi) \div 2 + 1, hi, find_naked_singles)

\* StrategySolver::batch_insert_entries
batch_insert_entries(s, find_naked_singles) ==
    batch_update_cells(batch_insert_pending(s, pending(s)), 0, N_CELLS - 1,
                       find_naked_singles)

\* insert_entries_singly: the loop over the neighbours of one placement
RECURSIVE singly_neighbors(_, _, _, _, _)
singly_neighbors(s, neighbors, digit, i, find_naked_singles) ==
    IF s.err \/ i > Len(neighbors) THEN s
    ELSE IF digit \in s.cell_poss_digits.state[neighbors[i]]
         THEN singly_neighbors(
                  remove_impossibilities(s, neighbors[i], {digit}, find_naked_singles),
                  neighbors, digit, i + 1, find_naked_singles)
         ELSE singly_neighbors(s, neighbors, digit, i + 1, find_naked_singles)

\* insert_entries_singly, one iteration of its loop
insert_next_singly(s, find_naked_singles) ==
    LET candidate == s.deduced_entries[s.cell_poss_digits.next_deduced + 1]
        s1 == [s EXCEPT !.cell_poss_digits.next_deduced = @ + 1,
                        !.house_solved_digits.next_deduced = @ + 1]
    IN IF s1.cell_poss_digits.state[candidate.cell] = {} THEN Skip(s1, candidate, "singly")
       ELSE IF candidate.digit \notin s1.cell_poss_digits.state[candidate.cell]
            THEN Unsolvable(s1)
            ELSE singly_neighbors(insert_candidate_cp_zs(s1, candidate),
                                  Neighbors(candidate.cell), candidate.digit, 1,
                                  find_naked_singles)

\* StrategySolver::insert_entries_singly: at most n iterations.  The loop
\* ends when nothing is pending, when an iteration fails, or when an iteration
\* leaves more than SINGLY_MAX placements pending (it is entered with at most
\* SINGLY_MAX pending, and an iteration that skips its placement leaves fewer).
RECURSIVE insert_entries_singly(_, _, _)
insert_entries_singly(s, n, find_naked_singles) ==
    IF s.err \/ pending(s) = 0 \/ pending(s) > SINGLY_MAX \/ n = 0 THEN s
    ELSE IF n = 1 THEN insert_next_singly(s, find_naked_singles)
    ELSE insert_entries_singly(
             insert_entries_singly(s, n \div 2, find_naked_singles),
             n - n \div 2, find_naked_singles)

\* every iteration of the insertion loops consumes a placement, and at most
\* one placement per cell is appended while they run
MaxIterations == N_CELLS + SINGLY_MAX

\* insert_entries: one iteration of the loop that picks singly or batch
\* insertion
insert_entries_step(s, find_naked_singles) ==
    IF pending(s) <= SINGLY_MAX
    THEN insert_entries_singly(s, MaxIterations, find_naked_singles)
    ELSE batch_insert_entries(s, find_naked_singles)

\* insert_entries: its loop, at most n iterations
RECURSIVE insert_entries_loop(_, _, _)
insert_entries_loop(s, n, find_naked_singles) ==
    IF s.err \/ pending(s) = 0 \/ n = 0 THEN s
    ELSE IF n = 1 THEN insert_entries_step(s, find_naked_singles)
    ELSE insert_entries_loop(insert_entries_loop(s, n \div 2, find_naked_singles),
                             n - n \div 2, find_naked_singles)

\* StrategySolver::insert_entries
insert_entries(s, find_naked_singles) ==
    IF s.cell_poss_digits.next_deduced # s.house_solved_digits.next_deduced
    THEN [s EXCEPT !.panic = TRUE]
    ELSE insert_entries_loop(batch_insert_entries(s, find_naked_singles),
                             MaxIterations, find_naked_singles)

\* _update_cell_poss_house_solved: the loop over the eliminations lo .. hi
RECURSIVE apply_eliminations(_, _, _, _)
apply_eliminations(s, lo, hi, find_naked_singles) ==
    IF s.err \/ lo > hi THEN s
    ELSE IF lo = hi
         THEN remove_impossibilities(s, s.eliminated_entries[lo].cell,
                                     {s.eliminated_entries[lo].digit},
                                     find_naked_singles)
         ELSE apply_eliminations(
                  apply_eliminations(s, lo, (lo + hi) \div 2, find_naked_singles),
                  (lo + hi) \div 2 + 1, hi, find_naked_singles)

\* StrategySolver::_update_cell_poss_house_solved
update_cell_poss_house_solved_(s, find_naked_singles) ==
    LET s1 == apply_eliminations(s, s.cell_poss_digits.last_eliminated + 1,
                                 Len(s.eliminated_entries), find_naked_singles)
        s2 == [s1 EXCEPT !.cell_poss_digits.last_eliminated = Len(s1.eliminated_entries)]
    IN IF s1.err THEN s1 ELSE insert_entries(s2, find_naked_singles)

\* StrategySolver::update_cell_poss_house_solved
update_cell_poss_house_solved(s) == update_cell_poss_house_solved_(s, FALSE)

-----------------------------------------------------------------------------
(* Strategies *)

\* find_naked_singles, one iteration of the loop over the cells; done says
\* that the loop was left after the first single
naked_singles_cell(r, cell, stop_after_first) ==
    LET u == unique(r.s.cell_poss_digits.state[cell])
        candidate == Candidate(cell, u.value)
        s1 == push_new_candidate(r.s, candidate, NakedSingles(candidate))
    IN IF u.ok /\ u.some
       THEN IF s1.err THEN [s |-> s1, done |-> TRUE]
            ELSE [s |-> [s1 EXCEPT !.deduced_entries = Append(@, candidate)],
                  done |-> stop_after_first]
       ELSE r

\* find_naked_singles: the loop over the cells lo .. hi
RECURSIVE naked_singles_scan(_, _, _, _)
naked_singles_scan(r, lo, hi, stop_after_first) ==
    IF r.done \/ lo > hi THEN r
    ELSE IF lo = hi THEN naked_singles_cell(r, lo, stop_after_first)
    ELSE naked_singles_scan(naked_singles_scan(r, lo, (lo + hi) \div 2, stop_after_first),
                            (lo + hi) \div 2 + 1, hi, stop_after_first)

\* StrategySolver::find_naked_singles
find_naked_singles(s, stop_after_first) ==
    LET s1 == update_cell_poss_house_solved(s)
        s2 == naked_singles_scan([s |-> s1, done |-> FALSE], 0, N_CELLS - 1,
                                 stop_after_first).s
    IN IF s1.err \/ s1.panic THEN s1
       ELSE IF s2.err THEN s2
       ELSE update_cell_poss_house_solved(s2)

\* House::categorize
categorize(house) == IF house < 9 THEN "Row" ELSE IF house < 18 THEN "Col" ELSE "Block"

HiddenSingles(candidate, house_type) ==
    [kind |-> "HiddenSingles", candidate |-> candidate, house_type |-> house_type]

\* find_unique, and the same fold in find_hidden_singles: the digits met so
\* far (unsolved) and those met more than once (multiple_unsolved)
RECURSIVE find_unique_fold(_, _, _, _)
find_unique_fold(possibilities, i, unsolved, multiple_unsolved) ==
    IF i > Len(possibilities)
    THEN [unsolved |-> unsolved, multiple_unsolved |-> multiple_unsolved,
          unique |-> unsolved \ multiple_unsolved]
    ELSE find_unique_fold(possibilities, i + 1, unsolved \cup possibilities[i],
                          multiple_unsolved \cup (unsolved \cap possibilities[i]))

find_unique(possibilities) == find_unique_fold(possibilities, 1, {}, {})

\* find_hidden_singles: the loop over the cells of one house; done says that
\* the routine returned from inside the loop
RECURSIVE hidden_singles_cells(_, _, _, _, _)
hidden_singles_cells(s, house, i, singles, stop_after_first) ==
    IF i > 9 THEN [s |-> s, done |-> FALSE]
    ELSE LET cell == HouseCells(house)[i]
             u == unique(s.cell_poss_digits.state[cell] \cap singles)
             candidate == Candidate(cell, u.value)
             s1 == push_new_candidate(s, candidate,
                                      HiddenSingles(candidate, categorize(house)))
         IN IF ~u.ok
            THEN hidden_singles_cells(s, house, i + 1, singles, stop_after_first)
            ELSE IF ~u.some THEN [s |-> Unsolvable(s), done |-> TRUE]
            ELSE IF s1.err THEN [s |-> s1, done |-> TRUE]
            ELSE IF stop_after_first THEN [s |-> s1, done |-> TRUE]
            ELSE IF singles \ {u.value} = {} THEN [s |-> s1, done |-> FALSE]
            ELSE hidden_singles_cells(s1, house, i + 1, singles \ {u.value},
                                      stop_after_first)

\* find_hidden_singles: the loop over the houses
RECURSIVE hidden_singles_houses(_, _, _)
hidden_singles_houses(s, house, stop_after_first) ==
    IF house >= N_HOUSES THEN s
    ELSE LET f == find_unique([i \in 1 .. 9 |->
                                   s.cell_poss_digits.state[HouseCells(house)[i]]])
             r == hidden_singles_cells(s, house, 1, f.unique, stop_after_first)
         IN IF f.unsolved \cup s.house_solved_digits.state[house] # Digit
            THEN Unsolvable(s)
            ELSE IF f.unique = {}
                 THEN hidden_singles_houses(s, house + 1, stop_after_first)
                 ELSE IF r.done THEN r.s
                      ELSE hidden_singles_houses(r.s, house + 1, stop_after_first)

\* StrategySolver::find_hidden_singles
find_hidden_singles(s, stop_after_first) ==
    LET s1 == update_cell_poss_house_solved(s)
    IN IF s1.err \/ s1.panic THEN s1
       ELSE hidden_singles_houses(s1, 0, stop_after_first)

LockedCandidates(miniline, digits, conflicts) ==
    [kind |-> "LockedCandidates", miniline |-> miniline, digits |-> digits,
     conflicts |-> conflicts]

\* find_locked_candidates: the possible digits of each miniline of a chute
miniline_poss_digits(s, chute) ==
    [i \in 0 .. 8 |->
        UNION {s.cell_poss_digits.state[MiniLineCells(chute, i)[k]] : k \in 1 .. 3}]

\* line_unique_digits that takes every digit possible in the line
line_unique_digits_unsolved(mpd) ==
    [chute_line \in 0 .. 2 |->
        find_unique([f \in 1 .. 3 |-> mpd[chute_line * 3 + (f - 1)]]).unsolved]

line_unique_digits(mpd) ==
    [chute_line \in 0 .. 2 |->
        find_unique([f \in 1 .. 3 |-> mpd[chute_line * 3 + (f - 1)]]).unique]

field_unique_digits(mpd) ==
    [chute_field \in 0 .. 2 |->
        find_unique([l \in 1 .. 3 |-> mpd[(l - 1) * 3 + chute_field]]).unique]

\* the candidates of one cell that conflict with the uniques, in digit order
cell_conflicts(s, cell, uniques) ==
    LET ds == AscendingDigits(s.cell_poss_digits.state[cell] \cap uniques)
    IN [j \in 1 .. Len(ds) |-> Candidate(cell, ds[j])]

\* find_locked_candidates: the closure find_impossibles, for one neighbour;
\* neighbor.chute().as_index() is read as the neighbour's place among the
\* nine minilines of the chute, so that the test only skips a neighbour
\* none of whose cells has a conflict
neighbor_impossibles(s, chute, mpd, uniques, neighbor) ==
    IF mpd[neighbor] \cap uniques = {} THEN <<>>
    ELSE cell_conflicts(s, MiniLineCells(chute, neighbor)[1], uniques)
         \o cell_conflicts(s, MiniLineCells(chute, neighbor)[2], uniques)
         \o cell_conflicts(s, MiniLineCells(chute, neighbor)[3], uniques)

find_impossibles(s, chute, mpd, uniques, neighbors) ==
    neighbor_impossibles(s, chute, mpd, uniques, neighbors[1])
    \o neighbor_impossibles(s, chute, mpd, uniques, neighbors[2])

\* find_locked_candidates: the loop over the minilines of one chute and the
\* two (uniques, neighbours) pairs of a miniline, as one counter k; done says
\* that the routine returned from inside the loop
RECURSIVE locked_candidates_minilines(_, _, _, _, _)
locked_candidates_minilines(s, chute, mpd, k, stop_after_first) ==
    IF k >= 9 * 2 THEN [s |-> s, done |-> FALSE]
    ELSE LET i == k \div 2
             uniques == IF k % 2 = 0
                        THEN mpd[i] \cap line_unique_digits(mpd)[i \div 3]
                        ELSE mpd[i] \cap field_unique_digits(mpd)[i % 3]
             neighbors == IF k % 2 = 0 THEN FieldNeighbors(i) ELSE LineNeighbors(i)
             found == find_impossibles(s, chute, mpd, uniques, neighbors)
             n_elim == Len(s.eliminated_entries)
             s1 == [s EXCEPT !.eliminated_entries = @ \o found,
                             !.deductions =
                                 Append(@, LockedCandidates(chute * 9 + i, uniques,
                                            <<n_elim, n_elim + Len(found)>>))]
         IN IF uniques = {} \/ Len(found) = 0
            THEN locked_candidates_minilines(s, chute, mpd, k + 1, stop_after_first)
            ELSE IF stop_after_first THEN [s |-> s1, done |-> TRUE]
            ELSE locked_candidates_minilines(s1, chute, mpd, k + 1, stop_after_first)

\* find_locked_candidates: the loop over the chutes
RECURSIVE locked_candidates_scan(_, _, _)
locked_candidates_scan(s, chute, stop_after_first) ==
    IF chute >= 6 THEN s
    ELSE LET r == locked_candidates_minilines(s, chute, miniline_poss_digits(s, chute),
                                              0, stop_after_first)
         IN IF r.done THEN r.s
            ELSE locked_candidates_scan(r.s, chute + 1, stop_after_first)

\* StrategySolver::find_locked_candidates
find_locked_candidates(s, stop_after_first) ==
    LET s1 == update_cell_poss_house_solved(s)
    IN IF s1.err \/ s1.panic THEN s1
       ELSE locked_candidates_scan(s1, 0, stop_after_first)

-----------------------------------------------------------------------------
(* The cache of possible positions and the strategies that read it *)

\* update_house_poss_positions: one position stops being possible for a digit
\* in the three houses of a cell
remove_position(hpp, cell, digit) ==
    [hpp EXCEPT ![RowHouse(cell)][digit] = @ \ {RowPos(cell)},
                ![ColHouse(cell)][digit] = @ \ {ColPos(cell)},
                ![BlockHouse(cell)][digit] = @ \ {BlockPos(cell)}]

\* update_house_poss_positions: the loop over the neighbours of a placed cell
RECURSIVE remove_neighbor_positions(_, _, _, _)
remove_neighbor_positions(hpp, neighbors, digit, i) ==
    IF i > Len(neighbors) THEN hpp
    ELSE remove_neighbor_positions(remove_position(hpp, neighbors[i], digit),
                                   neighbors, digit, i + 1)

\* update_house_poss_positions: the loop over all digits for a placed cell
RECURSIVE remove_cell_positions(_, _, _)
remove_cell_positions(hpp, cell, digit) ==
    IF digit > N_DIGITS THEN hpp
    ELSE remove_cell_positions(remove_position(hpp, cell, digit), cell, digit + 1)

\* update_house_poss_positions: the body of the loop over the placements
place_in_house_poss_positions(hpp, candidate) ==
    LET cell == candidate.cell
        digit == candidate.digit
        hpp1 == remove_neighbor_positions(hpp, Neighbors(cell), digit, 1)
        hpp2 == remove_cell_positions(hpp1, cell, 1)
    IN [hpp2 EXCEPT ![RowHouse(cell)][digit] = {},
                    ![ColHouse(cell)][digit] = {},
                    ![BlockHouse(cell)][digit] = {}]

\* update_house_poss_positions: the loop over eliminated_entries[lo .. hi]
RECURSIVE house_poss_eliminations(_, _, _)
house_poss_eliminations(s, lo, hi) ==
    IF s.err \/ lo > hi THEN s
    ELSE IF lo = hi
         THEN [s EXCEPT !.house_poss_positions.state =
                   remove_position(@, s.eliminated_entries[lo].cell,
                                   s.eliminated_entries[lo].digit)]
    ELSE house_poss_eliminations(house_poss_eliminations(s, lo, (lo + hi) \div 2),
                                 (lo + hi) \div 2 + 1, hi)

\* update_house_poss_positions: the loop over deduced_entries[lo .. hi]
RECURSIVE house_poss_placements(_, _, _)
house_poss_placements(s, lo, hi) ==
    IF s.err \/ lo > hi THEN s
    ELSE IF lo = hi
         THEN [s EXCEPT !.house_poss_positions.state =
                   place_in_house_poss_positions(@, s.deduced_entries[lo])]
    ELSE house_poss_placements(house_poss_placements(s, lo, (lo + hi) \div 2),
                               (lo + hi) \div 2 + 1, hi)

\* update_house_poss_positions that forgets the placements
update_house_poss_positions_no_placements(s) ==
    LET s1 == house_poss_eliminations(s, s.house_poss_positions.last_eliminated + 1,
                                      Len(s.eliminated_entries))
    IN [s1 EXCEPT !.house_poss_positions.last_eliminated = Len(s.eliminated_entries),
                  !.house_poss_positions.next_deduced = Len(s.deduced_entries)]

\* StrategySolver::update_house_poss_positions
update_house_poss_positions(s) ==
    LET s1 == house_poss_eliminations(s, s.house_poss_positions.last_eliminated + 1,
                                      Len(s.eliminated_entries))
        s2 == house_poss_placements(s1, s.house_poss_positions.next_deduced + 1,
                                    Len(s.deduced_entries))
    IN [s2 EXCEPT !.house_poss_positions.last_eliminated = Len(s.eliminated_entries),
                  !.house_poss_positions.next_deduced = Len(s.deduced_entries)]

NakedSubsets(house, positions, digits, conflicts) ==
    [kind |-> "NakedSubsets", house |-> house, positions |-> positions,
     digits |-> digits, conflicts |-> conflicts]

HiddenSubsets(house, digits, positions, conflicts) ==
    [kind |-> "HiddenSubsets", house |-> house, digits |-> digits,
     positions |-> positions, conflicts |-> conflicts]

BasicFish(lines, digit, conflicts, positions) ==
    [kind |-> "BasicFish", lines |-> lines, digit |-> digit,
     conflicts |-> conflicts, positions |-> positions]

\* record_eliminations that records a pattern only for two eliminations or
\* more
record_eliminations_two_or_more(s, found, deduction) ==
    IF Len(found) = 0 THEN s
    ELSE IF Len(found) = 1 THEN [s EXCEPT !.eliminated_entries = @ \o found]
    ELSE [s EXCEPT !.eliminated_entries = @ \o found,
                   !.deductions = Append(@, deduction)]

\* record_eliminations that records a pattern without eliminations too
record_eliminations_always(s, found, deduction) ==
    [s EXCEPT !.eliminated_entries = @ \o found,
              !.deductions = Append(@, deduction)]

\* a found pattern: its eliminations are pushed and, if there are any, the
\* deduction is recorded with their range
record_eliminations(s, found, deduction) ==
    IF Len(found) = 0 THEN s
    ELSE [s EXCEPT !.eliminated_entries = @ \o found,
                   !.deductions = Append(@, deduction)]

\* find_naked_subsets: the eliminations of a found subset, position by
\* position outside the stack and digit by digit
naked_subset_conflicts(s, house, stack, total_poss_digs) ==
    LET ks == SelectSeq([k \in 1 .. 9 * N_DIGITS |-> k - 1],
                        LAMBDA k : /\ (k \div 9) \notin stack
                                   /\ (k % 9) + 1 \in total_poss_digs
                                   /\ (k % 9) + 1 \in
                                        s.cell_poss_digits.state[CellAt(house, k \div 9)])
    IN [j \in 1 .. Len(ks) |-> Candidate(CellAt(house, ks[j] \div 9), (ks[j] % 9) + 1)]

\* find_naked_subsets: walk_combinations and its loop over the remaining
\* positions (the iterator is the set of positions not yet visited)
RECURSIVE naked_walk_combinations(_, _, _, _, _, _, _)
RECURSIVE naked_walk_positions(_, _, _, _, _, _, _)
naked_walk_combinations(s, total_poss_digs, positions, house, stack, subset_size, stop_after_first) ==
    LET is_subset == /\ Cardinality(stack) = subset_size
                     /\ Cardinality(total_poss_digs) = Cardinality(stack)
        found == naked_subset_conflicts(s, house, stack, total_poss_digs)
        n_elim == Len(s.eliminated_entries)
        s1 == record_eliminations(s, found,
                  NakedSubsets(house, stack, total_poss_digs,
                               <<n_elim, n_elim + Len(found)>>))
    IN IF Cardinality(stack) > subset_size THEN [s |-> s, done |-> FALSE]
       ELSE IF ~is_subset
            THEN naked_walk_positions(s, total_poss_digs, positions, house, stack,
                                      subset_size, stop_after_first)
       ELSE IF Len(found) > 0 /\ stop_after_first THEN [s |-> s1, done |-> TRUE]
       ELSE naked_walk_positions(s1, total_poss_digs, positions, house, stack,
                                 subset_size, stop_after_first)

naked_walk_positions(s, total_poss_digs, positions, house, stack, subset_size, stop_after_first) ==
    IF positions = {} THEN [s |-> s, done |-> FALSE]
    ELSE LET position == Min(positions)
             rest == positions \ {position}
             cell_poss == s.cell_poss_digits.state[CellAt(house, position)]
             r == naked_walk_combinations(s, total_poss_digs \cup cell_poss, rest,
                                          house, stack \cup {position}, subset_size,
                                          stop_after_first)
         IN IF cell_poss = {}
            THEN naked_walk_positions(s, total_poss_digs, rest, house, stack,
                                      subset_size, stop_after_first)
            ELSE IF r.done THEN r
            ELSE naked_walk_positions(r.s, total_poss_digs, rest, house, stack,
                                      subset_size, stop_after_first)

\* find_naked_subsets: the loop over the houses
RECURSIVE naked_subsets_houses(_, _, _, _)
naked_subsets_houses(s, house, subset_size, stop_after_first) ==
    IF house >= N_HOUSES THEN s
    ELSE IF s.house_solved_digits.state[house] = Digit
         THEN naked_subsets_houses(s, house + 1, subset_size, stop_after_first)
    ELSE LET r == naked_walk_combinations(s, {}, Pos, house, {}, subset_size,
                                          stop_after_first)
         IN IF r.done THEN r.s
            ELSE naked_subsets_houses(r.s, house + 1, subset_size, stop_after_first)

\* StrategySolver::find_naked_subsets
find_naked_subsets(s, subset_size, stop_after_first) ==
    LET s1 == update_cell_poss_house_solved(s)
    IN IF s1.err \/ s1.panic THEN s1
       ELSE naked_subsets_houses(s1, 0, subset_size, stop_after_first)

\* find_hidden_subsets: the eliminations of a found subset, digit by digit
\* outside the stack and position by position
hidden_subset_conflicts(s, house, stack, total_poss_pos) ==
    LET ks == SelectSeq([k \in 1 .. 9 * N_DIGITS |-> k - 1],
                        LAMBDA k : /\ (k \div 9) + 1 \notin stack
                                   /\ (k % 9) \in total_poss_pos
                                   /\ (k % 9) \in
                                        s.house_poss_positions.state[house][(k \div 9) + 1])
    IN [j \in 1 .. Len(ks) |-> Candidate(CellAt(house, ks[j] % 9), (ks[j] \div 9) + 1)]

\* find_hidden_subsets: walk_combinations and its loop over the remaining digits
RECURSIVE hidden_walk_combinations(_, _, _, _, _, _, _)
RECURSIVE hidden_walk_digits(_, _, _, _, _, _, _)
hidden_walk_combinations(s, house, total_poss_pos, digits, stack, subset_size, stop_after_first) ==
    LET is_subset == /\ Cardinality(stack) = subset_size
                     /\ Cardinality(total_poss_pos) = Cardinality(stack)
        found == hidden_subset_conflicts(s, house, stack, total_poss_pos)
        n_elim == Len(s.eliminated_entries)
        s1 == record_eliminations(s, found,
                  HiddenSubsets(house, stack, total_poss_pos,
                                <<n_elim, n_elim + Len(found)>>))
    IN IF Cardinality(stack) > subset_size THEN [s |-> s, done |-> FALSE]
       ELSE IF ~is_subset
            THEN hidden_walk_digits(s, house, total_poss_pos, digits, stack,
                                    subset_size, stop_after_first)
       ELSE IF Len(found) > 0 /\ stop_after_first THEN [s |-> s1, done |-> TRUE]
       ELSE hidden_walk_digits(s1, house, total_poss_pos, digits, stack,
                               subset_size, stop_after_first)

hidden_walk_digits(s, house, total_poss_pos, digits, stack, subset_size, stop_after_first) ==
    IF digits = {} THEN [s |-> s, done |-> FALSE]
    ELSE LET digit == Min(digits)
             rest == digits \ {digit}
             num_poss_pos == s.house_poss_positions.state[house][digit]
             r == hidden_walk_combinations(s, house, total_poss_pos \cup num_poss_pos,
                                           rest, stack \cup {digit}, subset_size,
                                           stop_after_first)
         IN IF num_poss_pos = {}
            THEN hidden_walk_digits(s, house, total_poss_pos, rest, stack,
                                    subset_size, stop_after_first)
            ELSE IF r.done THEN r
            ELSE hidden_walk_digits(r.s, house, total_poss_pos, rest, stack,
                                    subset_size, stop_after_first)

\* find_hidden_subsets: the loop over the houses
RECURSIVE hidden_subsets_houses(_, _, _, _)
hidden_subsets_houses(s, house, subset_size, stop_after_first) ==
    IF house >= N_HOUSES THEN s
    ELSE IF s.house_solved_digits.state[house] = Digit
         THEN hidden_subsets_houses(s, house + 1, subset_size, stop_after_first)
    ELSE LET r == hidden_walk_combinations(s, house, {}, Digit, {}, subset_size,
                                           stop_after_first)
         IN IF r.done THEN r.s
            ELSE hidden_subsets_houses(r.s, house + 1, subset_size, stop_after_first)

\* StrategySolver::find_hidden_subsets
find_hidden_subsets(s, subset_size, stop_after_first) ==
    hidden_subsets_houses(update_house_poss_positions(s), 0, subset_size,
                          stop_after_first)

\* Line::ALL_ROWS and Line::ALL_COLS
ALL_ROWS == 0 .. 8

ALL_COLS == 9 .. 17

\* fish_conflicts that does not leave out the lines of the fish
fish_conflicts_every_line(s, digit, stack, all_lines, union_poss_pos) ==
    LET ks == SelectSeq([k \in 1 .. 18 * 9 |-> k - 1],
                        LAMBDA k : /\ (k \div 9) \in all_lines
                                   /\ (k % 9) \in union_poss_pos
                                   /\ digit \in
                                        s.cell_poss_digits.state[CellAt(k \div 9, k % 9)])
    IN [j \in 1 .. Len(ks) |-> Candidate(CellAt(ks[j] \div 9, ks[j] % 9), digit)]

\* basic_fish_walk_combinations: the eliminations of a found fish, line by
\* line outside the stack and position by position of the union
fish_conflicts(s, digit, stack, all_lines, union_poss_pos) ==
    LET ks == SelectSeq([k \in 1 .. 18 * 9 |-> k - 1],
                        LAMBDA k : /\ (k \div 9) \in all_lines \ stack
                                   /\ (k % 9) \in union_poss_pos
                                   /\ digit \in
                                        s.cell_poss_digits.state[CellAt(k \div 9, k % 9)])
    IN [j \in 1 .. Len(ks) |-> Candidate(CellAt(ks[j] \div 9, ks[j] % 9), digit)]

\* basic_fish_walk_combinations and its loop over the remaining lines
RECURSIVE basic_fish_walk_combinations(_, _, _, _, _, _, _, _)
RECURSIVE basic_fish_walk_lines(_, _, _, _, _, _, _, _)
basic_fish_walk_combinations(s, digit, goal_depth, stack, lines, all_lines, union_poss_pos, stop_after_first) ==
    LET found == fish_conflicts(s, digit, stack, all_lines, union_poss_pos)
        n_elim == Len(s.eliminated_entries)
        s1 == record_eliminations(s, found,
                  BasicFish(stack, digit, <<n_elim, n_elim + Len(found)>>,
                            union_poss_pos))
    IN IF Cardinality(stack) # goal_depth
       THEN basic_fish_walk_lines(s, digit, goal_depth, stack, lines, all_lines,
                                  union_poss_pos, stop_after_first)
       ELSE IF Cardinality(union_poss_pos) # goal_depth THEN [s |-> s, done |-> FALSE]
       ELSE IF Len(found) > 0 /\ stop_after_first THEN [s |-> s1, done |-> TRUE]
       ELSE basic_fish_walk_lines(s1, digit, goal_depth, stack, lines, all_lines,
                                  union_poss_pos, stop_after_first)

basic_fish_walk_lines(s, digit, goal_depth, stack, lines, all_lines, union_poss_pos, stop_after_first) ==
    IF lines = {} THEN [s |-> s, done |-> FALSE]
    ELSE LET line == Min(lines)
             rest == lines \ {line}
             possible_pos == s.house_poss_positions.state[line][digit]
             new_union_poss_pos == union_poss_pos \cup possible_pos
             r == basic_fish_walk_combinations(s, digit, goal_depth,
                                               stack \cup {line}, rest, all_lines,
                                               new_union_poss_pos, stop_after_first)
         IN IF Cardinality(possible_pos) < 2
               \/ Cardinality(new_union_poss_pos) > goal_depth
            THEN basic_fish_walk_lines(s, digit, goal_depth, stack, rest, all_lines,
                                       union_poss_pos, stop_after_first)
            ELSE IF r.done THEN r
            ELSE basic_fish_walk_lines(r.s, digit, goal_depth, stack, rest, all_lines,
                                       union_poss_pos, stop_after_first)

\* find_fish: the loop over the digits and, for each, the rows and then the
\* columns, as one counter k
RECURSIVE fish_scan(_, _, _, _)
fish_scan(s, k, max_size, stop_after_first) ==
    IF k >= 2 * N_DIGITS THEN s
    ELSE LET lines == IF k % 2 = 0 THEN ALL_ROWS ELSE ALL_COLS
             r == basic_fish_walk_combinations(s, (k \div 2) + 1, max_size, {}, lines,
                                               lines, {}, stop_after_first)
         IN IF r.done THEN r.s
            ELSE fish_scan(r.s, k + 1, max_size, stop_after_first)

\* StrategySolver::find_fish
find_fish(s, max_size, stop_after_first) ==
    LET s1 == update_cell_poss_house_solved(update_house_poss_positions(s))
    IN IF s1.err \/ s1.panic THEN s1
       ELSE fish_scan(s1, 0, max_size, stop_after_first)

\* StrategySolver::find_xwings
find_xwings(s, stop_after_first) == find_fish(s, 2, stop_after_first)

\* StrategySolver::find_swordfish
find_swordfish(s, stop_after_first) == find_fish(s, 3, stop_after_first)

\* StrategySolver::find_jellyfish
find_jellyfish(s, stop_after_first) == find_fish(s, 4, stop_after_first)

-----------------------------------------------------------------------------
(* Singles chains: the colouring ch = [cell_color, cell_linked] of one digit *)

\* Set::one_possibility: the first element of the iteration
one_possibility(set) == Min(set)

\* find_singles_chain: cell_linked and cell_color as the loop over the digits
\* creates them
NoChains ==
    [cell_linked |-> [c \in Cell |-> 0], cell_color |-> [c \in Cell |-> "Uncoloured"]]

\* the position of a cell in its i-th house
PosIn(cell, i) == IF i = 1 THEN RowPos(cell) ELSE IF i = 2 THEN ColPos(cell) ELSE BlockPos(cell)

\* find_singles_chain::follow_links and its loop over the three houses of
\* the cell
RECURSIVE follow_links(_, _, _, _, _, _)
RECURSIVE follow_links_houses(_, _, _, _, _, _, _)
follow_links(digit, cell, is_a, s, ch, link_nr) ==
    IF ch.cell_linked[cell] <= link_nr THEN ch
    ELSE follow_links_houses(digit, cell, is_a, s, ch, link_nr, 1)

follow_links_houses(digit, cell, is_a, s, ch, link_nr, i) ==
    IF i > 3 THEN ch
    ELSE LET con_house == HousesOf(cell)[i]
             poss_positions == s.house_poss_positions.state[con_house][digit]
             other_pos == one_possibility(poss_positions \ {PosIn(cell, i)})
             other_cell == CellAt(con_house, other_pos)
             ch1 == [ch EXCEPT !.cell_linked[other_cell] = link_nr,
                               !.cell_color[other_cell] = IF is_a THEN "A" ELSE "B"]
         IN IF Cardinality(poss_positions) # 2
            THEN follow_links_houses(digit, cell, is_a, s, ch, link_nr, i + 1)
            ELSE IF ch.cell_linked[other_cell] <= link_nr
                 THEN follow_links_houses(digit, cell, is_a, s, ch, link_nr, i + 1)
                 ELSE follow_links_houses(
                          digit, cell, is_a, s,
                          follow_links(digit, other_cell, ~is_a, s, ch1, link_nr),
                          link_nr, i + 1)

\* find_singles_chain: the loop over the houses that starts the chains of one
\* digit; r = [ch, cell_touched, link_nr]
RECURSIVE chain_starts(_, _, _, _)
chain_starts(s, digit, house, r) ==
    IF house >= N_HOUSES THEN r
    ELSE LET poss_positions == s.house_poss_positions.state[house][digit]
             cell == CellAt(house, one_possibility(poss_positions))
         IN IF Cardinality(poss_positions) # 2 \/ cell \in r.cell_touched
            THEN chain_starts(s, digit, house + 1, r)
            ELSE chain_starts(s, digit, house + 1,
                     [ch |-> follow_links(digit, cell, TRUE, s, r.ch, r.link_nr),
                      cell_touched |-> r.cell_touched \cup {cell},
                      link_nr |-> r.link_nr + 1])

\* Rule 1: the number of cells of the house that belong to the chain and
\* carry the colour
house_colours(ch, house, link_nr, colour) ==
    Cardinality({pos \in Pos : /\ ch.cell_linked[CellAt(house, pos)] = link_nr
                               /\ ch.cell_color[CellAt(house, pos)] = colour})

\* Rule 1: mark_impossible, the cells of the chain with the colour, in
\* ascending order
mark_impossible(digit, link_nr, colour, ch) ==
    LET cells == SelectSeq(AllCells, LAMBDA c : /\ ch.cell_linked[c] = link_nr
                                                /\ ch.cell_color[c] = colour)
    IN [j \in 1 .. Len(cells) |-> Candidate(cells[j], digit)]

\* Rule 1: the loop over the houses for one chain; it returns Unsolvable,
\* marks one colour impossible and stops, or finds nothing
RECURSIVE rule_one(_, _, _, _, _)
rule_one(s, digit, ch, link_nr, house) ==
    IF house >= N_HOUSES THEN s
    ELSE LET n_a == house_colours(ch, house, link_nr, "A")
             n_b == house_colours(ch, house, link_nr, "B")
         IN IF n_a >= 2 /\ n_b >= 2 THEN Unsolvable(s)
            ELSE IF n_a >= 2
                 THEN [s EXCEPT !.eliminated_entries =
                                    @ \o mark_impossible(digit, link_nr, "A", ch)]
            ELSE IF n_b >= 2
                 THEN [s EXCEPT !.eliminated_entries =
                                    @ \o mark_impossible(digit, link_nr, "B", ch)]
            ELSE rule_one(s, digit, ch, link_nr, house + 1)

\* Rule 2: one neighbour of one coloured cell; r = [s, sees_a, sees_b]
rule_two_neighbor(r, digit, colour, neighbor_cell) ==
    IF colour = "A" /\ neighbor_cell \notin r.sees_a
    THEN [r EXCEPT !.sees_a = @ \cup {neighbor_cell},
                   !.s.eliminated_entries =
                       IF neighbor_cell \in r.sees_b
                       THEN Append(@, Candidate(neighbor_cell, digit)) ELSE @]
    ELSE IF colour = "B" /\ neighbor_cell \notin r.sees_b
    THEN [r EXCEPT !.sees_b = @ \cup {neighbor_cell},
                   !.s.eliminated_entries =
                       IF neighbor_cell \in r.sees_a
                       THEN Append(@, Candidate(neighbor_cell, digit)) ELSE @]
    ELSE r

\* Rule 2: the loops over the houses of one coloured cell and the cells of
\* each house, as one counter k
RECURSIVE rule_two_cell(_, _, _, _, _)
rule_two_cell(r, digit, ch, cell, k) ==
    IF k >= 3 * 9 THEN r
    ELSE LET neighbor_cell == CellAt(HousesOf(cell)[(k \div 9) + 1], k % 9)
         IN IF neighbor_cell = cell THEN rule_two_cell(r, digit, ch, cell, k + 1)
            ELSE rule_two_cell(rule_two_neighbor(r, digit, ch.cell_color[cell],
                                                 neighbor_cell),
                               digit, ch, cell, k + 1)

\* Rule 2: the loop over the coloured cells of one chain
RECURSIVE rule_two_cells(_, _, _, _, _)
rule_two_cells(r, digit, ch, cells, j) ==
    IF j > Len(cells) THEN r
    ELSE rule_two_cells(rule_two_cell(r, digit, ch, cells[j], 0), digit, ch, cells, j + 1)

rule_two(s, digit, ch, link_nr) ==
    rule_two_cells([s |-> s, sees_a |-> {}, sees_b |-> {}], digit, ch,
                   SelectSeq(AllCells, LAMBDA c : /\ ch.cell_linked[c] = link_nr
                                                  /\ ch.cell_color[c] # "Uncoloured"),
                   1).s

\* find_singles_chain: the loop over the chains of one digit
RECURSIVE chain_rules(_, _, _, _, _)
chain_rules(s, digit, ch, link_nr, n_links) ==
    IF s.err \/ link_nr >= n_links THEN s
    ELSE LET s1 == rule_one(s, digit, ch, link_nr, 0)
         IN IF s1.err THEN s1
            ELSE chain_rules(rule_two(s1, digit, ch, link_nr), digit, ch,
                             link_nr + 1, n_links)

\* find_singles_chain: the loop over the digits
RECURSIVE singles_chain_digits(_, _)
singles_chain_digits(s, digit) ==
    IF s.err \/ digit > N_DIGITS THEN s
    ELSE LET r == chain_starts(s, digit, 0,
                               [ch |-> NoChains, cell_touched |-> {}, link_nr |-> 0])
         IN singles_chain_digits(chain_rules(s, digit, r.ch, 0, r.link_nr), digit + 1)

\* StrategySolver::find_singles_chain
find_singles_chain(s) == singles_chain_digits(s, 1)

-----------------------------------------------------------------------------
(* Input puzzles: 81 numbers in reading order, 0 for an empty cell *)

Sudoku(cells) == [c \in Cell |-> cells[c + 1]]

\* 39 givens of the solution below
PuzzlePartial ==
    <<5, 0, 0, 6, 0, 8, 0, 0, 0,
      0, 0, 2, 1, 9, 5, 0, 0, 8,
      0, 0, 8, 3, 4, 0, 5, 6, 0,
      0, 0, 9, 0, 0, 1, 0, 2, 3,
      4, 0, 6, 8, 0, 0, 7, 0, 0,
      0, 0, 3, 0, 2, 4, 0, 5, 6,
      0, 6, 1, 0, 0, 0, 2, 8, 4,
      2, 0, 7, 4, 0, 0, 0, 0, 5,
      0, 4, 0, 0, 0, 6, 1, 0, 9>>

\* a completed valid grid: all 81 cells given
PuzzleSolved ==
    <<5, 3, 4, 6, 7, 8, 9, 1, 2,
      6, 7, 2, 1, 9, 5, 3, 4, 8,
      1, 9, 8, 3, 4, 2, 5, 6, 7,
      8, 5, 9, 7, 6, 1, 4, 2, 3,
      4, 2, 6, 8, 5, 3, 7, 9, 1,
      7, 1, 3, 9, 2, 4, 8, 5, 6,
      9, 6, 1, 5, 3, 7, 2, 8, 4,
      2, 8, 7, 4, 1, 9, 6, 3, 5,
      3, 4, 5, 2, 8, 6, 1, 7, 9>>

\* all 81 cells given, the last one wrong (two 7s in row 8)
PuzzleSolvedWrong ==
    <<5, 3, 4, 6, 7, 8, 9, 1, 2,
      6, 7, 2, 1, 9, 5, 3, 4, 8,
      1, 9, 8, 3, 4, 2, 5, 6, 7,
      8, 5, 9, 7, 6, 1, 4, 2, 3,
      4, 2, 6, 8, 5, 3, 7, 9, 1,
      7, 1, 3, 9, 2, 4, 8, 5, 6,
      9, 6, 1, 5, 3, 7, 2, 8, 4,
      2, 8, 7, 4, 1, 9, 6, 3, 5,
      3, 4, 5, 2, 8, 6, 1, 7, 7>>

\* the solution with seven cells left open
PuzzleNear ==
    <<0, 3, 4, 6, 7, 8, 9, 1, 2,
      6, 7, 2, 1, 9, 5, 3, 4, 8,
      1, 9, 8, 3, 4, 2, 5, 6, 7,
      8, 5, 9, 7, 6, 1, 4, 2, 3,
      4, 2, 6, 8, 5, 3, 7, 9, 1,
      7, 1, 3, 9, 2, 4, 8, 5, 6,
      9, 6, 1, 5, 3, 7, 2, 8, 4,
      2, 8, 7, 4, 1, 9, 6, 3, 5,
      3, 4, 5, 0, 0, 0, 0, 0, 0>>

\* 30 givens of the same solution and a second 5 in row 0
PuzzleDouble ==
    <<5, 5, 0, 0, 7, 0, 0, 0, 0,
      6, 0, 0, 1, 9, 5, 0, 0, 0,
      0, 9, 8, 0, 0, 0, 0, 6, 0,
      8, 0, 0, 0, 6, 0, 0, 0, 3,
      4, 0, 0, 8, 0, 3, 0, 0, 1,
      7, 0, 0, 0, 2, 0, 0, 0, 6,
      0, 6, 0, 0, 0, 0, 2, 8, 0,
      0, 0, 0, 4, 1, 9, 0, 0, 5,
      0, 0, 0, 0, 8, 0, 0, 7, 9>>

\* givens without a direct conflict and without a solution
PuzzleNoSolution ==
    <<0, 0, 0, 6, 0, 0, 8, 0, 0,
      0, 0, 3, 5, 0, 0, 0, 1, 0,
      0, 0, 0, 0, 0, 0, 0, 0, 0,
      7, 0, 1, 4, 0, 0, 0, 0, 3,
      0, 0, 0, 0, 0, 9, 0, 0, 4,
      0, 0, 0, 0, 6, 2, 0, 0, 0,
      0, 1, 0, 3, 0, 0, 9, 0, 0,
      8, 0, 0, 7, 0, 0, 0, 0, 0,
      0, 5, 0, 2, 0, 0, 0, 4, 0>>

\* no givens
PuzzleEmpty ==
    <<0, 0, 0, 0, 0, 0, 0, 0, 0,
      0, 0, 0, 0, 0, 0, 0, 0, 0,
      0, 0, 0, 0, 0, 0, 0, 0, 0,
      0, 0, 0, 0, 0, 0, 0, 0, 0,
      0, 0, 0, 0, 0, 0, 0, 0, 0,
      0, 0, 0, 0, 0, 0, 0, 0, 0,
      0, 0, 0, 0, 0, 0, 0, 0, 0,
      0, 0, 0, 0, 0, 0, 0, 0, 0,
      0, 0, 0, 0, 0, 0, 0, 0, 0>>

\* 34 givens that leave naked pairs, hidden pairs and x-wings
PuzzleFish ==
    <<0, 3, 0, 6, 7, 8, 0, 1, 2,
      6, 0, 0, 0, 9, 0, 3, 0, 0,
      1, 0, 8, 0, 4, 0, 0, 0, 7,
      8, 0, 9, 7, 0, 0, 0, 2, 3,
      4, 0, 0, 0, 5, 3, 0, 9, 1,
      0, 0, 0, 0, 2, 0, 8, 5, 0,
      9, 0, 0, 0, 0, 0, 0, 8, 4,
      0, 0, 0, 0, 1, 9, 0, 0, 0,
      0, 4, 5, 0, 0, 6, 0, 0, 0>>

\* givens without a direct conflict whose contradiction the singles meet
\* before they have placed all they can
PuzzleContradiction ==
    <<0, 0, 0, 6, 0, 8, 0, 0, 2,
      6, 7, 2, 0, 0, 0, 3, 0, 8,
      0, 0, 8, 3, 0, 0, 0, 0, 0,
      0, 0, 0, 0, 6, 0, 4, 0, 0,
      0, 0, 0, 0, 5, 3, 7, 0, 0,
      0, 0, 3, 9, 0, 0, 0, 0, 0,
      0, 0, 0, 0, 0, 0, 2, 8, 3,
      0, 0, 0, 0, 0, 0, 6, 0, 5,
      0, 0, 0, 0, 0, 0, 0, 7, 9>>


Puzzles ==
    {Sudoku(PuzzlePartial),
     Sudoku(PuzzleSolved),
     Sudoku(PuzzleSolvedWrong),
     Sudoku(PuzzleNear),
     Sudoku(PuzzleDouble),
     Sudoku(PuzzleNoSolution),
     Sudoku(PuzzleEmpty)}

-----------------------------------------------------------------------------
(* The strategy list and its dispatch *)

Strategy == {"NakedSingles", "HiddenSingles", "LockedCandidates"}

\* the lists of up to MaxStrategies strategies, none of them twice
StrategyLists ==
    UNION {{l \in [1 .. n -> Strategy] : \A i, j \in 1 .. n : l[i] = l[j] => i = j} :
           n \in 0 .. MaxStrategies}

\* the strategies that read or refresh house_poss_positions, and naked pairs
EliminationStrategy == {"NakedPairs", "HiddenPairs", "XWing"}

\* the lists the client solves with when it uses them
EliminationLists ==
    {<<"XWing">>, <<"NakedPairs">>, <<"HiddenPairs">>,
     <<"NakedSingles", "XWing">>, <<"NakedSingles", "NakedPairs">>,
     <<"HiddenSingles", "HiddenPairs">>, <<"LockedCandidates", "XWing">>,
     <<"HiddenPairs", "XWing">>, <<"NakedPairs", "HiddenPairs">>}

EliminationPuzzles ==
    {Sudoku(PuzzleFish), Sudoku(PuzzlePartial), Sudoku(PuzzleDouble),
     Sudoku(PuzzleNoSolution)}

\* the lists of the client that solves with fish of every size and with
\* singles chains
PatternLists ==
    {<<"XWing", "SinglesChain">>, <<"HiddenPairs", "SinglesChain">>,
     <<"XWing", "NakedPairs">>, <<"LockedCandidates", "XWing">>,
     <<"Swordfish">>, <<"Jellyfish">>, <<"Jellyfish", "SinglesChain">>}

PatternPuzzles == {Sudoku(PuzzleFish), Sudoku(PuzzlePartial)}

\* Strategy::deduce
deduce(s, strategy, stop_after_first, is_first_strategy) ==
    IF strategy = "NakedSingles"
    THEN IF ~stop_after_first /\ is_first_strategy
         THEN update_cell_poss_house_solved_(s, TRUE)
         ELSE find_naked_singles(s, stop_after_first)
    ELSE IF strategy = "HiddenSingles" THEN find_hidden_singles(s, stop_after_first)
    ELSE IF strategy = "NakedPairs" THEN find_naked_subsets(s, 2, stop_after_first)
    ELSE IF strategy = "HiddenPairs" THEN find_hidden_subsets(s, 2, stop_after_first)
    ELSE IF strategy = "XWing" THEN find_xwings(s, stop_after_first)
    ELSE IF strategy = "Swordfish" THEN find_swordfish(s, stop_after_first)
    ELSE IF strategy = "Jellyfish" THEN find_jellyfish(s, stop_after_first)
    ELSE IF strategy = "SinglesChain" THEN find_singles_chain(s)
    ELSE find_locked_candidates(s, stop_after_first)

\* Strategy::deduce_one
deduce_one(s, strategy) == deduce(s, strategy, TRUE, FALSE)

\* Strategy::deduce_all
deduce_all(s, strategy, is_first_strategy) == deduce(s, strategy, FALSE, is_first_strategy)

\* a comparison of the first components only
tuple_lt_first(a, b) == a[1] < b[1]

\* the comparison of (usize, usize) tuples: lexicographic
tuple_lt(a, b) == a[1] < b[1] \/ (a[1] = b[1] /\ a[2] < b[2])

\* try_solve: have the logs grown since the top of the loop?
new_placement(s, n_ded) == Len(s.deduced_entries) > n_ded

\* new_entry that also restarts when nothing was appended
new_entry_or_none(s, n_ded, n_elim) ==
    Len(s.deduced_entries) >= n_ded \/ Len(s.eliminated_entries) >= n_elim

\* new_entry that looks at the placements only
new_entry_placements_only(s, n_ded, n_elim) == Len(s.deduced_entries) > n_ded

new_entry(s, n_ded, n_elim) ==
    Len(s.deduced_entries) > n_ded \/ Len(s.eliminated_entries) > n_elim

\* try_solve: its return value
try_solve_result(s, ls) == tuple_lt(ls, <<Len(s.deduced_entries), Len(s.eliminated_entries)>>)

\* StrategySolver::into_deductions
into_deductions(s) ==
    [deductions |-> s.deductions, deduced_entries |-> s.deduced_entries,
     eliminated_entries |-> s.eliminated_entries]

\* CellState of one cell, as grid_state and cell_state report it
cell_state_of(s, cell) ==
    IF s.grid[cell] # 0 THEN [digit |-> s.grid[cell]]
    ELSE [candidates |-> s.cell_poss_digits.state[cell]]

-----------------------------------------------------------------------------
(* The state machine: a client constructs the solver from a puzzle and      *)
(* calls its public operations one after the other.                         *)

\* the solver's fields after a routine
Store(s) ==
    /\ deductions' = s.deductions
    /\ deduced_entries' = s.deduced_entries
    /\ eliminated_entries' = s.eliminated_entries
    /\ n_solved' = s.n_solved
    /\ grid' = s.grid
    /\ cell_poss_digits' = s.cell_poss_digits
    /\ house_solved_digits' = s.house_solved_digits
    /\ house_poss_positions' = s.house_poss_positions

NoResult == [op |-> "from_sudoku"]

\* what the run has seen so far: the number of public calls (ops), the
\* strategy invocations of the current try_solve (calls), whether one of them
\* signalled Unsolvable (unsolvable), whether any refresh or strategy ever did
\* (ever_unsolvable), and whether the last operation was a try_solve that
\* returned unsolved without Unsolvable (settled; prev_settled: the same, for
\* the operation before the current one); again: the solver was built from
\* the grid a solve returned, and first_ok: that solve returned Ok; placed:
\* the digit the caches solved each cell with; skipped: the kinds of pending
\* placements the refreshes of this solver passed over; zeros: the kinds of
\* cells whose empty candidate set made a refresh return Unsolvable
NoHist ==
    [ops |-> 0, calls |-> 0, unsolvable |-> FALSE, ever_unsolvable |-> FALSE,
     settled |-> FALSE, prev_settled |-> FALSE, again |-> FALSE,
     first_ok |-> FALSE, placed |-> [c \in Cell |-> 0], skipped |-> {},
     zeros |-> {}]

\* the candidates the client inserts
InsertCandidates == {Candidate(0, 5), Candidate(0, 3)}

\* the cells the client asks cell_state for
QueryCells == {2}

InitWith(puzzles, lists) ==
    /\ puzzle \in puzzles
    /\ strategies \in lists
    /\ deductions = from_sudoku(puzzle).deductions
    /\ deduced_entries = from_sudoku(puzzle).deduced_entries
    /\ eliminated_entries = from_sudoku(puzzle).eliminated_entries
    /\ n_solved = from_sudoku(puzzle).n_solved
    /\ grid = from_sudoku(puzzle).grid
    /\ cell_poss_digits = from_sudoku(puzzle).cell_poss_digits
    /\ house_solved_digits = from_sudoku(puzzle).house_solved_digits
    /\ house_poss_positions = from_sudoku(puzzle).house_poss_positions
    /\ pc = "ready"
    /\ op = "none"
    /\ lens = <<0, 0>>
    /\ n_deductions = 0
    /\ n_eliminated = 0
    /\ rest_i = 0
    /\ result = NoResult
    /\ entry = from_sudoku(puzzle)
    /\ hist = NoHist

\* no Set<T> is being iterated
NoSet ==
    /\ set_bits = 0
    /\ iter_bits = 0
    /\ yielded = <<>>
    /\ set_result = [op |-> "none"]

\* no method of Sudoku is being called
NoSudoku ==
    /\ receiver = [c \in Cell |-> 0]
    /\ limit_arg = 0
    /\ answer = [op |-> "none"]

Init == InitWith(Puzzles, StrategyLists) /\ NoSet /\ NoSudoku

\* a public operation other than try_solve and solve begins
Begin == [hist EXCEPT !.ops = @ + 1, !.settled = FALSE, !.prev_settled = hist.settled]

\* to_sudoku
ToSudoku ==
    /\ pc = "ready"
    /\ hist.ops < MaxOps
    /\ \E s \in {update_grid(Self)} :
          /\ Store(s)
          /\ result' = [op |-> "to_sudoku", grid |-> s.grid]
    /\ hist' = Begin
    /\ entry' = Self
    /\ UNCHANGED <<puzzle, strategies, pc, op, local_vars>>
    /\ UNCHANGED <<bitset_vars, sudoku_vars>>

\* grid_state
GridState ==
    /\ pc = "ready"
    /\ hist.ops < MaxOps
    /\ \E s \in {update_cell_poss_house_solved_(update_grid(Self), FALSE)} :
       /\ Store(s)
       /\ pc' = IF s.panic THEN "panic" ELSE "ready"
       /\ result' = [op |-> "grid_state", cells |-> [c \in Cell |-> cell_state_of(s, c)]]
       /\ hist' = [Begin EXCEPT !.ever_unsolvable = @ \/ s.err,
                               !.placed = s.placed,
                               !.skipped = @ \cup s.skipped,
                               !.zeros = @ \cup s.zeros]
    /\ entry' = Self
    /\ UNCHANGED <<puzzle, strategies, op, local_vars>>
    /\ UNCHANGED <<bitset_vars, sudoku_vars>>

\* cell_state
CellState(cell) ==
    /\ pc = "ready"
    /\ hist.ops < MaxOps
    /\ \E s \in {update_cell_poss_house_solved_(update_grid(Self), FALSE)} :
       /\ Store(s)
       /\ pc' = IF s.panic THEN "panic" ELSE "ready"
       /\ result' = [op |-> "cell_state", cell |-> cell, value |-> cell_state_of(s, cell)]
       /\ hist' = [Begin EXCEPT !.ever_unsolvable = @ \/ s.err,
                               !.placed = s.placed,
                               !.skipped = @ \cup s.skipped,
                               !.zeros = @ \cup s.zeros]
    /\ entry' = Self
    /\ UNCHANGED <<puzzle, strategies, op, local_vars>>
    /\ UNCHANGED <<bitset_vars, sudoku_vars>>

\* insert_candidate
InsertCandidate(candidate) ==
    /\ pc = "ready"
    /\ hist.ops < MaxOps
    /\ \E s \in {push_new_candidate(update_grid(Self), candidate, Given(candidate))} :
       /\ Store(s)
       /\ result' = [op |-> "insert_candidate", candidate |-> candidate, ok |-> ~s.err]
    /\ hist' = Begin
    /\ entry' = Self
    /\ UNCHANGED <<puzzle, strategies, pc, op, local_vars>>
    /\ UNCHANGED <<bitset_vars, sudoku_vars>>

\* try_solve / solve: entry, up to the loop
Call(name) ==
    /\ pc = "ready"
    /\ hist.ops < MaxOps
    /\ op' = name
    /\ lens' = IF strategies = <<>> THEN lens
               ELSE <<Len(deduced_entries), Len(eliminated_entries)>>
    /\ pc' = IF strategies = <<>> THEN "exit" ELSE "outer"
    /\ hist' = [Begin EXCEPT !.calls = 0, !.unsolvable = FALSE]
    /\ entry' = Self
    /\ UNCHANGED <<puzzle, strategies, solver_vars, n_deductions, n_eliminated,
                   rest_i, result>>
    /\ UNCHANGED <<bitset_vars, sudoku_vars>>

TrySolveCall == Call("try_solve")

SolveCall == Call("solve")

\* try_solve: the top of the loop and the run of first
OuterFirst ==
    /\ pc = "outer"
    /\ Len(deduced_entries) < MaxLog /\ Len(eliminated_entries) < MaxLog
    /\ IF is_solved(Self)
       THEN /\ pc' = "exit"
            /\ UNCHANGED <<solver_vars, n_deductions, n_eliminated, rest_i, hist>>
       ELSE \E s \in {deduce_all(Self, strategies[1], TRUE)} :
               /\ n_deductions' = Len(deduced_entries)
               /\ n_eliminated' = Len(eliminated_entries)
               /\ Store(s)
               /\ hist' = [hist EXCEPT !.calls = IF @ < MaxCalls THEN @ + 1 ELSE @, !.unsolvable = s.err,
                                       !.ever_unsolvable = @ \/ s.err,
                               !.placed = s.placed,
                               !.skipped = @ \cup s.skipped,
                               !.zeros = @ \cup s.zeros]
               /\ pc' = IF s.panic THEN "panic"
                        ELSE IF s.err THEN "exit"
                        ELSE IF new_placement(s, Len(deduced_entries)) THEN "outer"
                        ELSE IF Len(strategies) > 1 THEN "rest"
                        ELSE "exit"
               /\ rest_i' = 2
    /\ UNCHANGED <<puzzle, strategies, op, lens, result, entry>>
    /\ UNCHANGED <<bitset_vars, sudoku_vars>>

\* try_solve: the run of one strategy of rest
RestStep ==
    /\ pc = "rest"
    /\ Len(deduced_entries) < MaxLog /\ Len(eliminated_entries) < MaxLog
    /\ \E s \in {deduce_one(Self, strategies[rest_i])} :
       /\ Store(s)
       /\ hist' = [hist EXCEPT !.calls = IF @ < MaxCalls THEN @ + 1 ELSE @, !.unsolvable = s.err,
                               !.ever_unsolvable = @ \/ s.err,
                               !.placed = s.placed,
                               !.skipped = @ \cup s.skipped,
                               !.zeros = @ \cup s.zeros]
       /\ pc' = IF s.panic THEN "panic"
                ELSE IF s.err THEN "exit"
                ELSE IF new_entry(s, n_deductions, n_eliminated) THEN "outer"
                ELSE IF rest_i < Len(strategies) THEN "rest"
                ELSE "exit"
       /\ rest_i' = IF ~s.panic /\ ~s.err /\ ~new_entry(s, n_deductions, n_eliminated)
                       /\ rest_i < Len(strategies)
                    THEN rest_i + 1 ELSE rest_i
    /\ UNCHANGED <<puzzle, strategies, op, lens, n_deductions, n_eliminated, result, entry>>
    /\ UNCHANGED <<bitset_vars, sudoku_vars>>

\* try_solve returns
TrySolveReturn ==
    /\ pc = "exit"
    /\ op = "try_solve"
    /\ result' = [op |-> "try_solve",
                  value |-> IF strategies = <<>> THEN FALSE
                            ELSE try_solve_result(Self, lens)]
    /\ hist' = [hist EXCEPT !.settled = ~hist.unsolvable /\ ~is_solved(Self)]
    /\ pc' = "ready"
    /\ op' = "none"
    /\ UNCHANGED <<puzzle, strategies, solver_vars, local_vars, entry>>
    /\ UNCHANGED <<bitset_vars, sudoku_vars>>

\* solve: after try_solve, update_grid and the match on is_solved
SolveReturn ==
    /\ pc = "exit"
    /\ op = "solve"
    /\ \E s \in {update_grid(Self)} :
       /\ Store(s)
       /\ result' = [op |-> "solve", ok |-> is_solved(s), grid |-> s.grid,
                     deductions |-> into_deductions(s)]
    /\ pc' = "done"
    /\ op' = "none"
    /\ UNCHANGED <<puzzle, strategies, local_vars, hist, entry>>
    /\ UNCHANGED <<bitset_vars, sudoku_vars>>

Next ==
    \/ ToSudoku
    \/ GridState
    \/ \E cell \in QueryCells : CellState(cell)
    \/ \E candidate \in InsertCandidates : InsertCandidate(candidate)
    \/ TrySolveCall
    \/ SolveCall
    \/ OuterFirst
    \/ RestStep
    \/ TrySolveReturn
    \/ SolveReturn

Spec == Init /\ [][Next]_vars

InitPatterns == InitWith(PatternPuzzles, PatternLists) /\ NoSet /\ NoSudoku

SpecPatterns == InitPatterns /\ [][Next]_vars

\* the client builds a fresh solver from the grid solve returned and calls
\* solve on it with the same strategy list: from_sudoku, then the entry of
\* solve up to the loop
SolveAgain ==
    /\ pc = "done"
    /\ ~hist.again
    /\ puzzle' = result.grid
    /\ Store(from_sudoku(result.grid))
    /\ op' = "solve"
    /\ lens' = IF strategies = <<>> THEN lens
               ELSE <<Len(from_sudoku(result.grid).deduced_entries), 0>>
    /\ pc' = IF strategies = <<>> THEN "exit" ELSE "outer"
    /\ hist' = [NoHist EXCEPT !.ops = 1, !.again = TRUE, !.first_ok = result.ok]
    /\ entry' = from_sudoku(result.grid)
    /\ UNCHANGED <<strategies, n_deductions, n_eliminated, rest_i, result>>
    /\ UNCHANGED <<bitset_vars, sudoku_vars>>

NextAgain == Next \/ SolveAgain

\* the client whose last operation is solve solves the returned grid again
AgainLists == StrategyLists \cup {<<"NakedSingles", "XWing">>, <<"HiddenPairs">>}

InitAgain ==
    /\ InitWith(Puzzles \cup {Sudoku(PuzzleContradiction)}, AgainLists)
    /\ NoSet /\ NoSudoku

SpecAgain == InitAgain /\ [][NextAgain]_vars

\* the same client, solving with the elimination strategies
InitEliminations ==
    InitWith(EliminationPuzzles, EliminationLists) /\ NoSet /\ NoSudoku

\* lists of three strategies, so that rest holds two
LoopLists ==
    {<<"NakedSingles", "LockedCandidates", "HiddenSingles">>,
     <<"LockedCandidates", "NakedSingles", "HiddenSingles">>,
     <<"HiddenSingles", "XWing", "NakedSingles">>,
     <<"NakedSingles", "NakedPairs", "HiddenPairs">>,
     <<"LockedCandidates", "XWing", "NakedSingles">>}

LoopPuzzles ==
    {Sudoku(PuzzleFish), Sudoku(PuzzlePartial), Sudoku(PuzzleDouble),
     Sudoku(PuzzleNear)}

InitLoop == InitWith(LoopPuzzles, LoopLists) /\ NoSet /\ NoSudoku

SpecLoop == InitLoop /\ [][Next]_vars

SpecEliminations == InitEliminations /\ [][Next]_vars

-----------------------------------------------------------------------------
(* Set<T> and its iterator (src/src/bitset.rs), for the element types      *)
(* stored in a u16 (Digit, Position): the set is its backing integer, bit  *)
(* i standing for the element of index i.                                  *)

\* the width of the backing integer of Set<Digit> and Set<Position>
STORAGE_BITS == 16

\* SetElement::ALL of Digit and Position: the bits 0 .. 8
ALL_BITS == 511

RECURSIVE Pow2(_)
Pow2(n) == IF n = 0 THEN 1 ELSE 2 * Pow2(n - 1)

\* the largest value of the backing integer
STORAGE_MAX == Pow2(STORAGE_BITS) - 1

\* x & y
RECURSIVE bitand(_, _)
bitand(x, y) ==
    IF x = 0 \/ y = 0 THEN 0
    ELSE (x % 2) * (y % 2) + 2 * bitand(x \div 2, y \div 2)

\* x ^ y
RECURSIVE bitxor(_, _)
bitxor(x, y) ==
    IF x = 0 THEN y
    ELSE IF y = 0 THEN x
    ELSE ((x + y) % 2) + 2 * bitxor(x \div 2, y \div 2)

\* !x on the backing integer
bitnot(x) == STORAGE_MAX - x

\* x.count_ones()
RECURSIVE count_ones(_)
count_ones(x) == IF x = 0 THEN 0 ELSE (x % 2) + count_ones(x \div 2)

\* x.trailing_zeros()
RECURSIVE trailing_zeros_from(_, _)
trailing_zeros_from(x, n) ==
    IF n = STORAGE_BITS \/ x % 2 = 1 THEN n
    ELSE trailing_zeros_from(x \div 2, n + 1)

trailing_zeros(x) == trailing_zeros_from(x, 0)

\* the lowest-bit extraction with the carry of the increment left out
lowest_bit_without_carry(x) ==
    [overflow |-> FALSE, value |-> bitand(x, bitxor(bitnot(x), 1))]

\* Iter::next: self.0 & (!self.0 + 1); overflow says that the addition left
\* the backing integer (a panic with overflow checks, a wrap without)
lowest_bit(x) ==
    [overflow |-> bitnot(x) + 1 > STORAGE_MAX,
     value |-> bitand(x, (bitnot(x) + 1) % (STORAGE_MAX + 1))]

\* Iter::next: the item is the constructor applied to the bit position
Iter_next(bits) ==
    LET lb == lowest_bit(bits)
    IN IF bits > ALL_BITS
       THEN [panic |-> TRUE, overflow |-> FALSE, some |-> FALSE, item |-> 0,
             bits |-> bits]
       ELSE IF bits = 0
       THEN [panic |-> FALSE, overflow |-> FALSE, some |-> FALSE, item |-> 0,
             bits |-> bits]
       ELSE [panic |-> FALSE, overflow |-> lb.overflow, some |-> TRUE,
             item |-> trailing_zeros(lb.value), bits |-> bitxor(bits, lb.value)]

\* Set::len
Set_len(bits) == count_ones(bits)

\* Set::unique on the backing integer: Ok(Some(x)), Ok(None) or Err(Zero)
Set_unique(bits) ==
    IF Set_len(bits) = 1
    THEN [ok |-> TRUE, some |-> Iter_next(bits).some, value |-> Iter_next(bits).item]
    ELSE IF Set_len(bits) = 0 THEN [ok |-> FALSE, some |-> FALSE, value |-> 0]
    ELSE [ok |-> TRUE, some |-> FALSE, value |-> 0]

\* the client builds a set inside the universe of T
InitSet ==
    /\ set_bits \in 0 .. ALL_BITS
    /\ iter_bits = 0
    /\ yielded = <<>>
    /\ set_result = [op |-> "new"]

\* set.into_iter()
IntoIter ==
    /\ set_result.op \in {"new", "unique"}
    /\ iter_bits' = set_bits
    /\ yielded' = <<>>
    /\ set_result' = [op |-> "into_iter"]
    /\ UNCHANGED <<set_bits, strategy_vars, sudoku_vars>>

\* iter.next(), until it has returned None
IterNext ==
    /\ \/ set_result.op = "into_iter"
       \/ set_result.op = "next" /\ set_result.some /\ ~set_result.panic
    /\ \E r \in {Iter_next(iter_bits)} :
          /\ iter_bits' = r.bits
          /\ yielded' = IF r.some THEN Append(yielded, r.item) ELSE yielded
          /\ set_result' = [op |-> "next", some |-> r.some, item |-> r.item,
                            overflow |-> r.overflow, panic |-> r.panic]
    /\ UNCHANGED <<set_bits, strategy_vars, sudoku_vars>>

\* set.unique()
Unique ==
    /\ set_result.op = "new"
    /\ set_result' = [op |-> "unique", value |-> Set_unique(set_bits)]
    /\ UNCHANGED <<set_bits, iter_bits, yielded, strategy_vars, sudoku_vars>>

NextSet == IntoIter \/ IterNext \/ Unique

InitBitset == InitWith({Sudoku(PuzzleEmpty)}, {<<>>}) /\ InitSet /\ NoSudoku

SpecBitset == InitBitset /\ [][NextSet]_vars

-----------------------------------------------------------------------------
(* The backtracking solver of src/src/sudoku.rs and the methods of Sudoku  *)
(* that use it.  A Mask<Digit> is the set of its digits; the zones are the *)
(* houses, rows first, then columns, then fields.                          *)

\* the largest limit the client passes to solve_at_most
MaxLimit == 4

Entry(cell, num) == [cell |-> cell, num |-> num]

\* SudokuSolver::new
SudokuSolver_new ==
    [grid |-> [c \in Cell |-> 0],
     n_solved_cells |-> 0,
     cell_poss_digits |-> [c \in Cell |-> Digit],
     zone_solved_digits |-> [z \in House |-> {}]]

\* what a routine of the solver hands back: the solver, the stack of entries,
\* the solutions, and whether it returned Err(Unsolvable) or panicked
Walk(sv, stack, solutions) ==
    [sv |-> sv, stack |-> stack, solutions |-> solutions, err |-> FALSE,
     panic |-> FALSE]

\* SudokuSolver::_insert_entry
SudokuSolver_insert_entry(sv, e) ==
    [sv EXCEPT !.n_solved_cells = @ + 1,
               !.grid[e.cell] = e.num,
               !.cell_poss_digits[e.cell] = {},
               !.zone_solved_digits[RowHouse(e.cell)] = @ \cup {e.num},
               !.zone_solved_digits[ColHouse(e.cell)] = @ \cup {e.num},
               !.zone_solved_digits[BlockHouse(e.cell)] = @ \cup {e.num}]

\* insert_entries, first loop, without the test against the zones
SudokuSolver_insert_drained_unchecked(w, e) ==
    IF w.sv.cell_poss_digits[e.cell] = {} THEN w
    ELSE [w EXCEPT !.sv = SudokuSolver_insert_entry(@, e)]

\* insert_entries, first loop, one entry of the drained stack
SudokuSolver_insert_drained(w, e) ==
    IF w.sv.cell_poss_digits[e.cell] = {} THEN w
    ELSE IF \/ e.num \in w.sv.zone_solved_digits[RowHouse(e.cell)]
            \/ e.num \in w.sv.zone_solved_digits[ColHouse(e.cell)]
            \/ e.num \in w.sv.zone_solved_digits[BlockHouse(e.cell)]
         THEN [w EXCEPT !.err = TRUE]
         ELSE [w EXCEPT !.sv = SudokuSolver_insert_entry(@, e)]

\* insert_entries, first loop: the entries lo .. hi of the drained stack
RECURSIVE SudokuSolver_drain(_, _, _, _)
SudokuSolver_drain(w, entries, lo, hi) ==
    IF w.err \/ lo > hi THEN w
    ELSE IF lo = hi THEN SudokuSolver_insert_drained(w, entries[lo])
    ELSE SudokuSolver_drain(SudokuSolver_drain(w, entries, lo, (lo + hi) \div 2),
                            entries, (lo + hi) \div 2 + 1, hi)

\* insert_entries, second loop, one cell; also remove_impossibilities: the
\* impossible digits leave the mask of the cell, an empty mask is Unsolvable
\* and a single digit is pushed on the stack
SudokuSolver_restrict_cell(w, cell, impossible) ==
    LET cell_mask == w.sv.cell_poss_digits[cell] \ impossible
        w1 == [w EXCEPT !.sv.cell_poss_digits[cell] = cell_mask]
    IN IF cell_mask = {} THEN [w1 EXCEPT !.err = TRUE]
       ELSE IF Cardinality(cell_mask) = 1
            THEN [w1 EXCEPT !.stack = Append(@, Entry(cell, Min(cell_mask)))]
            ELSE w1

\* insert_entries, second loop: the cells lo .. hi
RECURSIVE SudokuSolver_update_cells(_, _, _)
SudokuSolver_update_cells(w, lo, hi) ==
    IF w.err \/ lo > hi THEN w
    ELSE IF lo = hi
         THEN IF w.sv.cell_poss_digits[lo] = {} THEN w
              ELSE SudokuSolver_restrict_cell(w, lo,
                       w.sv.zone_solved_digits[RowHouse(lo)]
                           \cup w.sv.zone_solved_digits[ColHouse(lo)]
                           \cup w.sv.zone_solved_digits[BlockHouse(lo)])
    ELSE SudokuSolver_update_cells(SudokuSolver_update_cells(w, lo, (lo + hi) \div 2),
                                   (lo + hi) \div 2 + 1, hi)

\* SudokuSolver::insert_entries: the stack is drained, whatever the outcome
SudokuSolver_insert_entries(w) ==
    LET w1 == SudokuSolver_drain([w EXCEPT !.stack = <<>>], w.stack, 1, Len(w.stack))
    IN IF w1.err THEN w1 ELSE SudokuSolver_update_cells(w1, 0, N_CELLS - 1)

\* SudokuSolver::from_sudoku: Err, or the solver (the stack is dropped)
SudokuSolver_from_sudoku(sudoku) ==
    SudokuSolver_insert_entries(
        Walk(SudokuSolver_new,
             SelectSeq([i \in 1 .. N_CELLS |-> Entry(i - 1, sudoku[i - 1])],
                       LAMBDA e : e.num # 0),
             <<>>))

\* SudokuSolver::is_solved
SudokuSolver_is_solved(sv) == sv.n_solved_cells = N_CELLS

\* find_hidden_singles: the masks unsolved and multiple_unsolved of a zone
zone_unique(sv, zone) ==
    find_unique([i \in 1 .. 9 |-> sv.cell_poss_digits[CellAt(zone, i - 1)]])

\* find_hidden_singles: the first zone that is impossible or has a single;
\* N_HOUSES if there is none
RECURSIVE first_zone(_, _)
first_zone(sv, zone) ==
    IF zone >= N_HOUSES THEN zone
    ELSE LET fu == zone_unique(sv, zone)
         IN IF fu.unsolved \cup sv.zone_solved_digits[zone] # Digit \/ fu.unique # {}
            THEN zone
            ELSE first_zone(sv, zone + 1)

\* find_hidden_singles: the loop over the cells of the zone found
RECURSIVE SudokuSolver_push_singles(_, _, _, _)
SudokuSolver_push_singles(w, zone, singles, i) ==
    IF w.err \/ i > 9 THEN w
    ELSE LET cell == CellAt(zone, i - 1)
             mask == w.sv.cell_poss_digits[cell] \cap singles
         IN IF mask = {} THEN SudokuSolver_push_singles(w, zone, singles, i + 1)
            ELSE IF Cardinality(mask) # 1 THEN [w EXCEPT !.err = TRUE]
            ELSE SudokuSolver_push_singles(
                     [w EXCEPT !.stack = Append(@, Entry(cell, Min(mask)))],
                     zone, singles, i + 1)

\* SudokuSolver::find_hidden_singles
SudokuSolver_find_hidden_singles(w) ==
    LET zone == first_zone(w.sv, 0)
        fu == zone_unique(w.sv, zone)
    IN IF zone >= N_HOUSES THEN w
       ELSE IF fu.unsolved \cup w.sv.zone_solved_digits[zone] # Digit
            THEN [w EXCEPT !.err = TRUE]
       ELSE SudokuSolver_push_singles(w, zone, fu.unique, 1)

\* find_good_guess: the loop over the cells; best is (best_cell,
\* min_possibilities)
RECURSIVE best_guess(_, _, _)
best_guess(sv, cell, best) ==
    IF cell >= N_CELLS THEN best
    ELSE LET n == Cardinality(sv.cell_poss_digits[cell])
         IN IF n > 0 /\ n < best[2]
            THEN IF n = 2 THEN <<cell, n>> ELSE best_guess(sv, cell + 1, <<cell, n>>)
            ELSE best_guess(sv, cell + 1, best)

\* SudokuSolver::find_good_guess; without a cell to guess in, the index 100
\* is out of the bounds of the array
SudokuSolver_find_good_guess(sv) ==
    LET best_cell == best_guess(sv, 0, <<100, 10>>)[1]
    IN IF best_cell \notin Cell THEN [panic |-> TRUE, cell |-> 0, num |-> 0]
       ELSE [panic |-> FALSE, cell |-> best_cell,
             num |-> Min(sv.cell_poss_digits[best_cell])]

\* SudokuSolver::_solve_at_most
RECURSIVE SudokuSolver_solve_at_most_(_, _)
SudokuSolver_solve_at_most_(w, limit) ==
    LET w1 == SudokuSolver_insert_entries(w)
        w2 == SudokuSolver_find_hidden_singles(w1)
        guess == SudokuSolver_find_good_guess(w1.sv)
        tried == SudokuSolver_solve_at_most_(
                     [w1 EXCEPT !.stack = <<Entry(guess.cell, guess.num)>>], limit)
        w3 == SudokuSolver_restrict_cell(
                  [w1 EXCEPT !.stack = <<>>, !.solutions = tried.solutions],
                  guess.cell, {guess.num})
    IN IF w1.err THEN w1
       ELSE IF SudokuSolver_is_solved(w1.sv)
            THEN [w1 EXCEPT !.solutions = Append(@, w1.sv.grid)]
       ELSE IF w2.err THEN w2
       ELSE IF w2.stack # <<>> THEN SudokuSolver_solve_at_most_(w2, limit)
       ELSE IF guess.panic THEN [w1 EXCEPT !.panic = TRUE]
       ELSE IF tried.panic THEN tried
       ELSE IF Len(tried.solutions) = limit
            THEN [w1 EXCEPT !.stack = <<>>, !.solutions = tried.solutions]
       ELSE IF w3.err THEN w3
       ELSE SudokuSolver_solve_at_most_(w3, limit)

\* SudokuSolver::solve_at_most: the solutions, whatever _solve_at_most returned
SudokuSolver_solve_at_most(sv, limit) ==
    SudokuSolver_solve_at_most_(Walk(sv, <<>>, <<>>), limit)

\* Sudoku::solve_at_most: None is the empty sequence with some = FALSE
Sudoku_solve_at_most(sudoku, limit) ==
    LET w == SudokuSolver_from_sudoku(sudoku)
        r == SudokuSolver_solve_at_most(w.sv, limit)
    IN IF w.err THEN [some |-> FALSE, value |-> <<>>, panic |-> FALSE]
       ELSE [some |-> Len(r.solutions) # 0, value |-> r.solutions, panic |-> r.panic]

\* Sudoku::solve_unique, through SudokuSolver::solve_unique
Sudoku_solve_unique(sudoku) ==
    LET w == SudokuSolver_from_sudoku(sudoku)
        r == SudokuSolver_solve_at_most(w.sv, 2)
    IN IF w.err \/ Len(r.solutions) # 1
       THEN [some |-> FALSE, value |-> <<>>, panic |-> ~w.err /\ r.panic]
       ELSE [some |-> TRUE, value |-> <<r.solutions[1]>>, panic |-> r.panic]

\* Sudoku::is_solved
Sudoku_is_solved(sudoku) ==
    LET w == SudokuSolver_from_sudoku(sudoku)
    IN IF w.err THEN FALSE ELSE SudokuSolver_is_solved(w.sv)

\* the grids the client calls the methods on
Receivers ==
    {Sudoku(PuzzleSolved), Sudoku(PuzzleSolvedWrong), Sudoku(PuzzleNear),
     Sudoku(PuzzlePartial), Sudoku(PuzzleFish), Sudoku(PuzzleDouble),
     Sudoku(PuzzleNoSolution), Sudoku(PuzzleContradiction)}

InitSudoku ==
    /\ receiver \in Receivers
    /\ limit_arg \in 0 .. MaxLimit
    /\ answer = [op |-> "none"]

\* sudoku.is_solved()
IsSolved ==
    /\ answer.op = "none"
    /\ answer' = [op |-> "is_solved", value |-> Sudoku_is_solved(receiver)]
    /\ UNCHANGED <<receiver, limit_arg, strategy_vars, bitset_vars>>

\* sudoku.solve_at_most(limit)
SolveAtMost ==
    /\ answer.op = "none"
    /\ \E r \in {Sudoku_solve_at_most(receiver, limit_arg)} :
          answer' = [op |-> "solve_at_most", some |-> r.some, value |-> r.value,
                     panic |-> r.panic]
    /\ UNCHANGED <<receiver, limit_arg, strategy_vars, bitset_vars>>

\* sudoku.solve_unique()
SolveUnique ==
    /\ answer.op = "none"
    /\ \E r \in {Sudoku_solve_unique(receiver)} :
          answer' = [op |-> "solve_unique", some |-> r.some, value |-> r.value,
                     panic |-> r.panic]
    /\ UNCHANGED <<receiver, limit_arg, strategy_vars, bitset_vars>>

NextSudoku == IsSolved \/ SolveAtMost \/ SolveUnique

InitVerify == InitWith({Sudoku(PuzzleEmpty)}, {<<>>}) /\ NoSet /\ InitSudoku

SpecSudoku == InitVerify /\ [][NextSudoku]_vars

-----------------------------------------------------------------------------
(* Properties *)

\* a completed valid Sudoku: every house holds each digit
ValidGrid(g) == \A h \in House : {g[CellAt(h, p)] : p \in Pos} = Digit

\* g agrees with every given of the puzzle p
AgreesWithGivens(g, p) == \A c \in Cell : p[c] # 0 => g[c] = p[c]

\* the givens of p put a digit twice in one house
DuplicateGivens(p) ==
    \E h \in House : \E p1, p2 \in Pos :
        p1 # p2 /\ p[CellAt(h, p1)] # 0 /\ p[CellAt(h, p1)] = p[CellAt(h, p2)]

\* every cell of p is given
AllGiven(p) == \A c \in Cell : p[c] # 0

\* a is a prefix of b
IsPrefix(a, b) == Len(a) <= Len(b) /\ \A i \in 1 .. Len(a) : a[i] = b[i]

\* the last public operation has returned and nothing has been called since
Returned(name) == pc \in {"ready", "done"} /\ result.op = name

\* C1: when solve returns Ok, the returned grid is a completed valid Sudoku
\* that agrees with every given of the input puzzle
C1_SolveOkIsSolution ==
    (Returned("solve") /\ result.ok)
        => ValidGrid(result.grid) /\ AgreesWithGivens(result.grid, puzzle)

\* C2: for a puzzle whose givens repeat a digit in a house, solve called on
\* the freshly constructed solver returns Err with a grid equal to the puzzle;
\* if a strategy ran at all, its refresh signalled Unsolvable and no other ran
C2_DuplicateGivensErr ==
    (Returned("solve") /\ hist.ops = 1 /\ DuplicateGivens(puzzle))
        => /\ ~result.ok
           /\ result.grid = puzzle
           /\ hist.calls > 0 => (hist.calls = 1 /\ hist.unsolvable)

\* solve has run a strategy on a puzzle with duplicate givens
C2_Witness ==
    Returned("solve") /\ hist.ops = 1 /\ hist.calls = 1 /\ DuplicateGivens(puzzle)

\* C3: for a valid puzzle with all 81 cells given, solve returns Ok and no
\* strategy routine is invoked, whatever the strategy list
C3_FullGridOkWithoutStrategy ==
    (Returned("solve") /\ hist.ops = 1 /\ AllGiven(puzzle) /\ ValidGrid(puzzle))
        => result.ok /\ hist.calls = 0

\* C4: after a try_solve that returned with the puzzle unsolved and without
\* Unsolvable, a further try_solve returns false
C4_Fixpoint ==
    (Returned("try_solve") /\ hist.prev_settled /\ ~hist.ever_unsolvable)
        => ~result.value

\* C5: the strategy loop cannot restart forever: every restart finds the logs
\* longer than they were at the top of the pass it ends, the logs stay below
\* MaxLog entries, and no assertion fails
C5_Terminates ==
    [][/\ (pc \in {"outer", "rest"} /\ pc' = "outer")
            => Len(deduced_entries') + Len(eliminated_entries')
                   > n_deductions' + n_eliminated'
       /\ Len(deduced_entries') < MaxLog
       /\ Len(eliminated_entries') < MaxLog
       /\ pc' # "panic"]_vars

\* the strategy loop has restarted after a strategy of rest found something
C5_Witness == pc = "outer" /\ hist.calls >= 2

\* C6: try_solve returns true exactly if a log is longer than when it was
\* called; with an empty strategy list it returns false and the solver is as
\* it was
C6_TrySolveResult ==
    Returned("try_solve")
        => /\ result.value <=>
                  \/ Len(deduced_entries) > Len(entry.deduced_entries)
                  \/ Len(eliminated_entries) > Len(entry.eliminated_entries)
           /\ strategies = <<>> => (~result.value /\ Self = entry)

\* try_solve has returned true with eliminations only
C6_Witness ==
    /\ Returned("try_solve")
    /\ result.value
    /\ Len(deduced_entries) = Len(entry.deduced_entries)

\* the logs, n_solved and the caches are as the last operation found them
SameLogsAndCaches ==
    /\ deductions = entry.deductions
    /\ deduced_entries = entry.deduced_entries
    /\ eliminated_entries = entry.eliminated_entries
    /\ n_solved = entry.n_solved
    /\ cell_poss_digits = entry.cell_poss_digits
    /\ house_solved_digits = entry.house_solved_digits
    /\ house_poss_positions = entry.house_poss_positions

\* the digit to_sudoku reported for the cell of the inserted candidate before
\* the insert
DigitBeforeInsert == update_grid(entry).grid[result.candidate.cell]

\* the insert recorded the placement and one Deduction::Given
RecordedGiven ==
    /\ deductions = Append(entry.deductions, Given(result.candidate))
    /\ deduced_entries = Append(entry.deduced_entries, result.candidate)
    /\ eliminated_entries = entry.eliminated_entries
    /\ update_grid(Self).grid =
           [update_grid(entry).grid EXCEPT ![result.candidate.cell] = result.candidate.digit]

\* the insert failed and changed nothing but the raw grid
Rejected ==
    ~result.ok /\ SameLogsAndCaches /\ update_grid(Self).grid = update_grid(entry).grid

Fresh == hist.ops = 0

\* entries holds exactly the givens of p, in cell order
GivensInCellOrder(entries, p) ==
    /\ Len(entries) = Cardinality({c \in Cell : p[c] # 0})
    /\ \A i \in 1 .. Len(entries) :
          /\ entries[i].cell \in Cell
          /\ p[entries[i].cell] # 0
          /\ entries[i].digit = p[entries[i].cell]
          /\ i > 1 => entries[i - 1].cell < entries[i].cell

\* all candidates in every cell, no solved digit in any house, nothing solved
EmptyCaches ==
    /\ \A c \in Cell : cell_poss_digits.state[c] = Digit
    /\ \A h \in House : house_solved_digits.state[h] = {}
    /\ n_solved = 0

\* C8 as stated: after from_sudoku, deduced_entries holds the givens in cell
\* order, deductions holds one Given per given, and the caches are empty
C8_FromSudokuRecordsGivens ==
    Fresh => /\ GivensInCellOrder(deduced_entries, puzzle)
             /\ Len(deductions) = Len(deduced_entries)
             /\ \A i \in 1 .. Len(deductions) : deductions[i] = Given(deduced_entries[i])
             /\ EmptyCaches

\* C8, amended: after from_sudoku, deduced_entries holds the givens in cell
\* order, deductions is empty, and the caches are empty
C8_FromSudokuState ==
    Fresh => /\ GivensInCellOrder(deduced_entries, puzzle)
             /\ deductions = <<>>
             /\ EmptyCaches

\* a solver constructed from a puzzle with givens
C8_Witness == Fresh /\ Len(deduced_entries) > 0 /\ \E c \in Cell : puzzle[c] # 0

\* C9: every step leaves the existing prefix of each log in place, and solve
\* returns the logs as they are
C9_AppendOnly ==
    [][/\ IsPrefix(deductions, deductions')
       /\ IsPrefix(deduced_entries, deduced_entries')
       /\ IsPrefix(eliminated_entries, eliminated_entries')
       /\ pc' = "done" =>
              /\ result'.deductions.deductions = deductions'
              /\ result'.deductions.deduced_entries = deduced_entries'
              /\ result'.deductions.eliminated_entries = eliminated_entries']_vars

\* solve has given up on Unsolvable after deductions were appended
C9_Witness ==
    /\ Returned("solve")
    /\ hist.unsolvable
    /\ Len(deductions) > Len(entry.deductions)

\* every digit of the grid is accounted for in the caches
GridInCaches ==
    \A c \in Cell :
        \/ grid[c] = 0
        \/ /\ cell_poss_digits.state[c] = {}
           /\ grid[c] \in house_solved_digits.state[RowHouse(c)]
           /\ grid[c] \in house_solved_digits.state[ColHouse(c)]
           /\ grid[c] \in house_solved_digits.state[BlockHouse(c)]

\* the last public operation returned without an error
ReturnedOk ==
    /\ pc = "ready"
    /\ result.op = "insert_candidate" => result.ok

FilledCells(g) == Cardinality({c \in Cell : g[c] # 0})

\* the cells of the placements the cell caches have consumed
ConsumedCells(s) ==
    {s.deduced_entries[i].cell : i \in 1 .. s.cell_poss_digits.next_deduced}

PossPositions(s, h, d) ==
    {p \in Pos : /\ \A i \in 1 .. Len(s.deduced_entries) :
                        s.deduced_entries[i].cell # CellAt(h, p)
                 /\ d \in s.cell_poss_digits.state[CellAt(h, p)]
                 /\ d \notin s.house_solved_digits.state[h]}

\* both caches have consumed the two logs in full
CachesCurrent(s) ==
    /\ s.house_poss_positions.next_deduced = Len(s.deduced_entries)
    /\ s.house_poss_positions.last_eliminated = Len(s.eliminated_entries)
    /\ s.cell_poss_digits.next_deduced = Len(s.deduced_entries)
    /\ s.cell_poss_digits.last_eliminated = Len(s.eliminated_entries)
    /\ s.house_solved_digits.next_deduced = Len(s.deduced_entries)

\* C12: whenever house_poss_positions and the cell caches have both consumed
\* the full logs and no refresh signalled Unsolvable, house_poss_positions[h][d]
\* is exactly the set of positions p of h whose cell is unsolved, has d among
\* its candidates, and d is not among the solved digits of h
C12_HousePossPositions ==
    (CachesCurrent(Self) /\ ~hist.ever_unsolvable /\ pc # "panic")
        => \A h \in House : \A d \in Digit :
               house_poss_positions.state[h][d] = PossPositions(Self, h, d)

\* C12 happens: both caches are current after placements and eliminations
\* were consumed, and some digit still has possible positions in some house
C12_Witness ==
    /\ CachesCurrent(Self) /\ ~hist.ever_unsolvable /\ pc # "panic"
    /\ Len(eliminated_entries) > 0
    /\ Len(deduced_entries) > 0
    /\ \E h \in House : \E d \in Digit : house_poss_positions.state[h][d] # {}


EliminationKinds == {"LockedCandidates", "NakedSubsets", "HiddenSubsets", "BasicFish"}

\* the elimination deductions of the log, in order
EliminationDeductions == SelectSeq(deductions, LAMBDA d : d.kind \in EliminationKinds)

\* C13: every elimination deduction of the log (LockedCandidates,
\* NakedSubsets, HiddenSubsets, BasicFish) carries a half-open range
\* <<from, to>> that is not empty and lies within eliminated_entries; no
\* pattern is recorded with an empty range
C13_EliminationRanges ==
    \A i \in 1 .. Len(EliminationDeductions) :
        /\ 0 <= EliminationDeductions[i].conflicts[1]
        /\ EliminationDeductions[i].conflicts[1] < EliminationDeductions[i].conflicts[2]
        /\ EliminationDeductions[i].conflicts[2] <= Len(eliminated_entries)

\* C13 happens: the log holds elimination deductions of two kinds, one of
\* them a fish
C13_Witness ==
    /\ \E i, j \in 1 .. Len(EliminationDeductions) :
          EliminationDeductions[i].kind # EliminationDeductions[j].kind
    /\ \E i \in 1 .. Len(EliminationDeductions) :
          EliminationDeductions[i].kind = "BasicFish"


\* the second solve has returned
SolvedAgain == pc = "done" /\ hist.again

\* C14, as stated: solving the grid returned by solve once more, on a fresh
\* solver and with the same strategy list, records no deduction other than
\* Given: no placement beyond the givens of that grid and no elimination
C14_SolveIdempotent ==
    SolvedAgain =>
        /\ \A i \in 1 .. Len(deductions) : deductions[i].kind = "Given"
        /\ Len(deduced_entries) = FilledCells(puzzle)
        /\ Len(eliminated_entries) = 0

\* C14, amended: the second solve terminates (every restart of its loop finds
\* a log longer, the logs stay bounded, no assertion fails), and when the
\* first solve returned Ok the second records no deduction, no placement
\* beyond the 81 givens and no elimination
C14_SolveIdempotentAfterOk ==
    [][hist'.again =>
          /\ (pc \in {"outer", "rest"} /\ pc' = "outer")
                => Len(deduced_entries') + Len(eliminated_entries')
                       > n_deductions' + n_eliminated'
          /\ Len(deduced_entries') < MaxLog
          /\ Len(eliminated_entries') < MaxLog
          /\ pc' # "panic"
          /\ hist'.first_ok =>
                /\ deductions' = <<>>
                /\ eliminated_entries' = <<>>
                /\ Len(deduced_entries') = N_CELLS
                /\ FilledCells(puzzle') = N_CELLS]_vars

\* C14 happens: the grid of a solve that returned Ok was solved again, and
\* strategies ran on it
C14_Witness == SolvedAgain /\ hist.first_ok /\ hist.calls > 0


\* no placement was added since the solver was built from the puzzle
OnlyGivens == deduced_entries = from_sudoku(puzzle).deduced_entries

\* C15: for every puzzle, valid or not, to_sudoku on a solver built from it
\* returns the puzzle, as long as no placement was added in between
C15_RoundTrip ==
    (Returned("to_sudoku") /\ OnlyGivens) => result.grid = puzzle

\* C15 happens: to_sudoku returned on a solver built from a puzzle whose
\* givens repeat a digit in a house
C15_Witness ==
    Returned("to_sudoku") /\ OnlyGivens /\ DuplicateGivens(puzzle) /\ hist.ops = 1


\* the members of a set, by index
Members(bits) == {i \in 0 .. STORAGE_BITS - 1 : (bits \div Pow2(i)) % 2 = 1}

StrictlyAscending(seq) == \A i \in 1 .. Len(seq) - 1 : seq[i] < seq[i + 1]

\* the indices of a sequence as a set
Range(seq) == {seq[i] : i \in 1 .. Len(seq)}

\* C16: iterating a set inside the universe yields members only, in strictly
\* ascending index order (so none twice), and when next returns None every
\* member has been yielded; the lowest-bit extraction does not overflow and
\* no assertion fails; unique is Ok(Some(x)) for the one-element set {x},
\* Ok(None) for two or more elements and Err(Zero) for the empty set
C16_IterationAndUnique ==
    /\ StrictlyAscending(yielded)
    /\ Range(yielded) \subseteq Members(set_bits)
    /\ set_result.op \in {"into_iter", "next"} =>
          Members(iter_bits) = Members(set_bits) \ Range(yielded)
    /\ set_result.op = "next" =>
          /\ ~set_result.overflow
          /\ ~set_result.panic
          /\ ~set_result.some => Range(yielded) = Members(set_bits)
          /\ set_result.some => set_result.item = yielded[Len(yielded)]
    /\ set_result.op = "unique" =>
          LET n == Cardinality(Members(set_bits))
              u == set_result.value
          IN /\ n = 1 => u.ok /\ u.some /\ Members(set_bits) = {u.value}
             /\ n >= 2 => u.ok /\ ~u.some
             /\ n = 0 => ~u.ok

\* C16 happens: the iteration of a set of several members, the element of
\* index 0 not among them, has ended
C16_Witness ==
    /\ set_result.op = "next"
    /\ ~set_result.some
    /\ Len(yielded) >= 3
    /\ yielded[1] > 0


\* C17: Sudoku::is_solved returns true exactly for the grids with all 81
\* cells filled and no digit twice in a row, column or field; it returns
\* false for every grid with an empty cell or a repeated digit
C17_IsSolvedIffValid ==
    answer.op = "is_solved" =>
        (answer.value <=> (AllGiven(receiver) /\ ~DuplicateGivens(receiver)))

\* C17 happens: is_solved has answered true for a full grid
C17_Witness ==
    answer.op = "is_solved" /\ answer.value /\ AllGiven(receiver)

\* the digits that no cell of the houses of c holds in g
Allowed(g, c) ==
    {d \in Digit : \A h \in {RowHouse(c), ColHouse(c), BlockHouse(c)} :
                      \A p \in Pos : g[CellAt(h, p)] # d}

\* the completed valid grids that extend g, found by filling an empty cell
\* with the fewest allowed digits first
RECURSIVE Fill(_)
Fill(g) ==
    LET empty == {c \in Cell : g[c] = 0}
        fewest == Min({Cardinality(Allowed(g, c)) : c \in empty})
        cell == CHOOSE c \in empty : Cardinality(Allowed(g, c)) = fewest
    IN IF empty = {} THEN {g}
       ELSE UNION {Fill([g EXCEPT ![cell] = d]) : d \in Allowed(g, cell)}

\* the solutions of a puzzle
Completions(p) == IF DuplicateGivens(p) THEN {} ELSE Fill(p)

\* C18: solve_at_most(limit) never returns more than limit solutions, for
\* every limit from 0 on; the returned grids are valid completions of the
\* puzzle and pairwise distinct; a puzzle with fewer solutions than limit has
\* all of them returned, and None is returned when there is none
C18_SolveAtMost ==
    answer.op = "solve_at_most" =>
        /\ ~answer.panic
        /\ Len(answer.value) <= limit_arg
        /\ answer.some <=> Len(answer.value) > 0
        /\ \A i, j \in 1 .. Len(answer.value) :
              i # j => answer.value[i] # answer.value[j]
        /\ Range(answer.value) \subseteq Completions(receiver)
        /\ Cardinality(Completions(receiver)) < limit_arg
              => Range(answer.value) = Completions(receiver)


\* a step of the loop of try_solve that runs a strategy of rest
RestRun == pc = "rest" /\ pc' # "panic"

\* the step appended to one of the two logs
Appended ==
    \/ Len(deduced_entries') > Len(deduced_entries)
    \/ Len(eliminated_entries') > Len(eliminated_entries)

\* one of the two logs is longer than it was at the top of the iteration
LongerThanAtTop ==
    \/ Len(deduced_entries') > n_deductions
    \/ Len(eliminated_entries') > n_eliminated

\* rest is entered at its first strategy, by a run of first that returned Ok
\* without a new placement
RestEntered ==
    pc # "rest" /\ pc' = "rest" =>
        /\ pc = "outer"
        /\ rest_i' = 2
        /\ ~hist'.unsolvable
        /\ Len(deduced_entries') = Len(deduced_entries)

\* the strategy of rest at rest_i runs with stop_after_first = true
RestRunsOne ==
    RestRun =>
        \E s \in {deduce(Self, strategies[rest_i], TRUE, FALSE)} :
           /\ deduced_entries' = s.deduced_entries
           /\ eliminated_entries' = s.eliminated_entries
           /\ hist'.unsolvable = s.err

\* after a strategy of rest that did not restart the loop comes the next
\* one of the list, or the end of the loop after the last one
RestProceeds ==
    RestRun /\ pc' # "outer" =>
        \/ pc' = "rest" /\ rest_i' = rest_i + 1 /\ rest_i' <= Len(strategies)
        \/ pc' = "exit" /\ (rest_i = Len(strategies) \/ hist'.unsolvable)

\* C19: the strategies of rest run in list order with stop_after_first = true,
\* only after the run of first in that iteration produced no new placement;
\* after a strategy of rest the loop restarts from first exactly when that
\* strategy itself appended a placement or an elimination, and otherwise the
\* next strategy of rest runs
C19_RestRestartsOnOwnEntries ==
    [][/\ RestEntered
       /\ RestRunsOne
       /\ RestProceeds
       /\ RestRun => (pc' = "outer" <=> Appended)]_vars

\* C19, amended: the loop restarts after a strategy of rest that returned Ok
\* exactly when a log is longer than at the top of the iteration, before
\* first ran; a strategy of rest that returned Err ends the loop
C19_RestRestartsOnEntriesSinceTop ==
    [][/\ RestEntered
       /\ RestRunsOne
       /\ RestProceeds
       /\ RestRun => (pc' = "outer" <=> (~hist'.unsolvable /\ LongerThanAtTop))
       /\ RestRun /\ hist'.unsolvable => pc' = "exit"]_vars

\* C19 happens: the second strategy of rest ran after the first of them had
\* appended nothing, and the loop restarted from first, which had appended
\* nothing in that iteration
C19_Witness ==
    /\ pc = "outer"
    /\ rest_i = 3
    /\ Len(deduced_entries) = n_deductions + 1
    /\ ~hist.unsolvable


\* the kinds of pending placements passed over so far, in either mode
SkippedKinds == {k.kind : k \in hist.skipped}

C30_WatermarksAgree ==
    /\ pc # "panic"
    /\ cell_poss_digits.next_deduced = house_solved_digits.next_deduced
    /\ cell_poss_digits.next_deduced <= Len(deduced_entries)

\* C30 happens: a refresh returned Unsolvable with placements left pending,
\* and a later operation of the solver has run
C30_Witness ==
    /\ hist.ever_unsolvable
    /\ hist.ops = 2
    /\ cell_poss_digits.next_deduced > 0
    /\ cell_poss_digits.next_deduced < Len(deduced_entries)


\* the records of the deductions log that announce a placement
PlacementDeductions ==
    {i \in 1 .. Len(deductions) :
        deductions[i].kind \in {"Given", "NakedSingles", "HiddenSingles"}}

\* C28: every placement found by a singles routine is appended exactly once:
\* the entries appended to deduced_entries after construction are as many as
\* the placement records of the deductions log
C28_AppendedOnce ==
    Len(deduced_entries) - Len(from_sudoku(puzzle).deduced_entries)
        = Cardinality(PlacementDeductions)


\* a step that runs the refresh with find_naked_singles on (the first
\* strategy is NakedSingles) and sees it return Ok
RefreshWithSinglesOk ==
    /\ pc = "outer"
    /\ ~is_solved(Self)
    /\ strategies[1] = "NakedSingles"
    /\ pc' # "panic"
    /\ ~hist'.unsolvable

\* C22: when the refresh with find_naked_singles on returns Ok, the caches
\* have consumed every placement, those the refresh appended included, and
\* no unsolved cell has exactly one candidate left
C22_NakedSingleFixpoint ==
    [][RefreshWithSinglesOk =>
          /\ cell_poss_digits'.next_deduced = Len(deduced_entries')
          /\ \A c \in Cell : Cardinality(cell_poss_digits'.state[c]) # 1]_vars

\* C22 happens: the refresh with find_naked_singles on appended placements,
\* returned Ok and left cells unsolved
C22_Witness ==
    /\ pc = "outer"
    /\ strategies[1] = "NakedSingles"
    /\ hist.calls = 1
    /\ ~hist.unsolvable
    /\ Len(deduced_entries) > n_deductions
    /\ \E c \in Cell : Cardinality(cell_poss_digits.state[c]) >= 2


\* the placement deduced_entries[i] is reflected in the caches: its cell was
\* solved with its digit, has no candidate left, and its digit is a solved
\* digit of the three houses of the cell
PlacementApplied(i) ==
    LET e == deduced_entries[i]
    IN /\ hist.placed[e.cell] = e.digit
       /\ cell_poss_digits.state[e.cell] = {}
       /\ \A h \in {RowHouse(e.cell), ColHouse(e.cell), BlockHouse(e.cell)} :
             e.digit \in house_solved_digits.state[h]

\* the elimination eliminated_entries[i] is reflected in cell_poss_digits
EliminationApplied(i) ==
    eliminated_entries[i].digit
        \notin cell_poss_digits.state[eliminated_entries[i].cell]

\* C23: after a refresh that signalled Unsolvable the watermarks of
\* cell_poss_digits and house_solved_digits still name the prefixes of the
\* logs that the caches reflect: every entry before a watermark has been
\* applied to the cache
C23_WatermarksNameAppliedPrefix ==
    hist.ever_unsolvable =>
        /\ \A i \in 1 .. cell_poss_digits.next_deduced : PlacementApplied(i)
        /\ \A i \in 1 .. cell_poss_digits.last_eliminated : EliminationApplied(i)


\* C24: an empty candidate set is a contradiction only for an unsolved cell:
\* no refresh and no singles routine signals Unsolvable because of the empty
\* candidate set of a cell that is already solved
C24_NoUnsolvableForSolvedCell == "solved" \notin hist.zeros

\* C24 happens: cells are solved, and a refresh has signalled Unsolvable for
\* the empty candidate set of an unsolved cell
C24_Witness == "unsolved" \in hist.zeros /\ n_solved > 0


-----------------------------------------------------------------------------
(* C21: singly insertion and batch insertion *)

\* a mode consumes one placement per iteration, and the log holds at most the
\* givens and one placement per cell
ModeIterations == 2 * N_CELLS

\* the client of the two modes: it solves with locked candidates, inserts a
\* candidate into cell 1 and reads the grid
ModeLists == {<<"LockedCandidates">>, <<"LockedCandidates", "HiddenSingles">>}

ModePuzzles == {Sudoku(PuzzlePartial), Sudoku(PuzzleNear), Sudoku(PuzzleFish)}

ModeCandidates == {Candidate(1, 9), Candidate(1, 3), Candidate(1, 7)}

InitModes == InitWith(ModePuzzles, ModeLists) /\ NoSet /\ NoSudoku

NextModes ==
    \/ GridState
    \/ \E candidate \in ModeCandidates : InsertCandidate(candidate)
    \/ TrySolveCall
    \/ OuterFirst
    \/ RestStep
    \/ TrySolveReturn

SpecModes == InitModes /\ [][NextModes]_vars

\* the singly mode alone: insert_entries_singly's iteration, repeated until no
\* placement is pending or Unsolvable is signalled, at most n times
RECURSIVE SinglyMode(_, _, _)
SinglyMode(s, n, find_singles) ==
    IF s.err \/ pending(s) = 0 \/ n = 0 THEN s
    ELSE IF n = 1 THEN insert_next_singly(s, find_singles)
    ELSE SinglyMode(SinglyMode(s, n \div 2, find_singles),
                    n - n \div 2, find_singles)

\* the batch mode alone: batch_insert_entries, repeated until no placement is
\* pending or Unsolvable is signalled, at most n times
RECURSIVE BatchMode(_, _, _)
BatchMode(s, n, find_singles) ==
    IF s.err \/ pending(s) = 0 \/ n = 0 THEN s
    ELSE IF n = 1 THEN batch_insert_entries(s, find_singles)
    ELSE BatchMode(BatchMode(s, n \div 2, find_singles),
                   n - n \div 2, find_singles)

\* the two modes signal Unsolvable together, and when they do not they end
\* with the same caches and the same count of solved cells
SameOutcome(a, b) ==
    /\ a.err = b.err
    /\ ~a.err =>
          /\ a.cell_poss_digits.state = b.cell_poss_digits.state
          /\ a.house_solved_digits.state = b.house_solved_digits.state
          /\ a.n_solved = b.n_solved

\* the solver as the next refresh enters insert_entries: the logged
\* eliminations it has not seen are applied to cell_poss_digits
AtInsertEntries(find_singles) ==
    LET s1 == apply_eliminations(Self, cell_poss_digits.last_eliminated + 1,
                                 Len(eliminated_entries), find_singles)
    IN [s1 EXCEPT !.cell_poss_digits.last_eliminated = Len(s1.eliminated_entries)]

\* the solver is between two steps, no refresh has signalled Unsolvable, and
\* the next refresh enters insert_entries with placements pending
PendingPlacements(find_singles) ==
    /\ pc \in {"ready", "outer", "rest"}
    /\ ~hist.ever_unsolvable
    /\ ~AtInsertEntries(find_singles).err
    /\ pending(AtInsertEntries(find_singles)) > 0

\* the first pending placement names a digit that is not a candidate of its
\* cell, which is unsolved
FirstPendingEliminated(s) ==
    LET candidate == s.deduced_entries[s.cell_poss_digits.next_deduced + 1]
    IN /\ s.cell_poss_digits.state[candidate.cell] # {}
       /\ candidate.digit \notin s.cell_poss_digits.state[candidate.cell]

\* C21: from every state in which insert_entries is entered with pending
\* placements the singly mode and the batch mode signal Unsolvable for the
\* same inputs and otherwise end with the same cell_poss_digits,
\* house_solved_digits and n_solved, with and without the search for naked
\* singles
C21_ModesAgree ==
    \A find_singles \in BOOLEAN :
        PendingPlacements(find_singles) =>
            SameOutcome(SinglyMode(AtInsertEntries(find_singles), ModeIterations, find_singles),
                        BatchMode(AtInsertEntries(find_singles), ModeIterations, find_singles))

\* C21, its particular case: the first pending placement names a digit that
\* was eliminated from its unsolved cell, and both modes signal Unsolvable
C21_EliminatedRejectedInBothModes ==
    \A find_singles \in BOOLEAN :
        (PendingPlacements(find_singles)
             /\ FirstPendingEliminated(AtInsertEntries(find_singles))) =>
            /\ SinglyMode(AtInsertEntries(find_singles), ModeIterations, find_singles).err
            /\ BatchMode(AtInsertEntries(find_singles), ModeIterations, find_singles).err

\* the same case, without the search for naked singles: the singly mode
\* signals Unsolvable
C21_EliminatedRejectedSingly ==
    (PendingPlacements(FALSE) /\ FirstPendingEliminated(AtInsertEntries(FALSE))) =>
        SinglyMode(AtInsertEntries(FALSE), ModeIterations, FALSE).err

\* without the search for naked singles the two modes agree on every input
\* whose pending placements name candidates of their cells
C21_ModesAgreeOnCandidates ==
    (PendingPlacements(FALSE) /\ ~FirstPendingEliminated(AtInsertEntries(FALSE))) =>
        SameOutcome(SinglyMode(AtInsertEntries(FALSE), ModeIterations, FALSE),
                    BatchMode(AtInsertEntries(FALSE), ModeIterations, FALSE))


-----------------------------------------------------------------------------
(* C27: the eliminations of locked candidates *)

\* the cells of a house and of a miniline, as sets
HouseCellSet(h) == {HouseCells(h)[i] : i \in 1 .. 9}

MiniLineCellSet(m) == {MiniLineCells(m \div 9, m % 9)[k] : k \in 1 .. 3}

\* the row or column that holds a miniline, and its block
MiniLineLine(m) == CHOOSE h \in 0 .. 17 : MiniLineCellSet(m) \subseteq HouseCellSet(h)

MiniLineBlock(m) == CHOOSE h \in 18 .. 26 : MiniLineCellSet(m) \subseteq HouseCellSet(h)

\* digit d is a candidate of some cell of the set, by the candidates cpd
PossibleIn(cpd, cells, d) == \E c \in cells : d \in cpd[c]

\* the elimination (c, d) of the record follows from the candidates cpd
JustifiedElimination(cpd, record, c, d) ==
    LET m == record.miniline
        line == HouseCellSet(MiniLineLine(m)) \ MiniLineCellSet(m)
        block == HouseCellSet(MiniLineBlock(m)) \ MiniLineCellSet(m)
    IN /\ d \in record.digits
       /\ PossibleIn(cpd, MiniLineCellSet(m), d)
       /\ d \in cpd[c]
       /\ \/ ~PossibleIn(cpd, line, d) /\ c \in block
          \/ ~PossibleIn(cpd, block, d) /\ c \in line

\* the step appends a LockedCandidates record
LockedCandidatesLogged ==
    \E k \in Len(deductions) + 1 .. Len(deductions') :
        deductions'[k].kind = "LockedCandidates"

\* C27: every elimination in the range of a LockedCandidates record is
\* justified by the candidates at the time it is logged: its digit is one
\* of the record's digits, possible in the record's miniline and in the
\* cell, and either possible nowhere else in the miniline's line while the
\* cell is in the rest of its block, or possible nowhere else in its block
\* while the cell is in the rest of its line
C27_LockedCandidatesJustified ==
    [][\A k \in Len(deductions) + 1 .. Len(deductions') :
           deductions'[k].kind = "LockedCandidates" =>
               \A i \in deductions'[k].conflicts[1] + 1 .. deductions'[k].conflicts[2] :
                   JustifiedElimination(cell_poss_digits'.state, deductions'[k],
                                        eliminated_entries'[i].cell,
                                        eliminated_entries'[i].digit)]_vars

\* locked candidates have just logged eliminations of both kinds: one in the
\* rest of a miniline's block and one in the rest of a miniline's line
C27_Witness ==
    /\ cell_poss_digits.last_eliminated < Len(eliminated_entries)
    /\ \E k, l \in 1 .. Len(deductions) :
          /\ deductions[k].kind = "LockedCandidates"
          /\ deductions[l].kind = "LockedCandidates"
          /\ deductions[k].conflicts[1] >= cell_poss_digits.last_eliminated
          /\ deductions[l].conflicts[1] >= cell_poss_digits.last_eliminated
          /\ deductions[k].conflicts[2] > deductions[k].conflicts[1]
          /\ deductions[l].conflicts[2] > deductions[l].conflicts[1]
          /\ eliminated_entries[deductions[k].conflicts[2]].cell
                 \in HouseCellSet(MiniLineLine(deductions[k].miniline))
          /\ eliminated_entries[deductions[l].conflicts[2]].cell
                 \in HouseCellSet(MiniLineBlock(deductions[l].miniline))


-----------------------------------------------------------------------------
(* C25: simple colouring, Rule 2 *)

\* the links of a digit: the pairs of cells that are the two possible
\* positions of the digit in some house
Links(hpp, d) ==
    {<<CellAt(h, p), CellAt(h, q)>> :
        <<h, p, q>> \in {t \in House \X Pos \X Pos :
                            t[2] # t[3] /\ hpp[t[1]][d] = {t[2], t[3]}}}

\* the two-colouring of the chain that holds the cells a and b, carried on
\* from the cells coloured last: each step along a link flips the colour
RECURSIVE Colouring(_, _, _, _, _)
Colouring(links, a, b, frontier, frontier_is_a) ==
    LET next == {l[2] : l \in {l \in links : l[1] \in frontier}} \ (a \cup b)
    IN IF next = {} THEN [a |-> a, b |-> b]
       ELSE IF frontier_is_a THEN Colouring(links, a, b \cup next, next, FALSE)
       ELSE Colouring(links, a \cup next, b, next, TRUE)

\* the chains of a digit, each with its start cell in colour A
Chains(hpp, d) ==
    {Colouring(Links(hpp, d), {l[1]}, {}, {l[1]}, TRUE) : l \in Links(hpp, d)}

Sees(c, x) == c # x /\ (Row(c) = Row(x) \/ Col(c) = Col(x) \/ Block(c) = Block(x))

\* Rule 2 applies to cell c: it is outside the chain, admits d and sees a
\* cell of each colour
RuleTwoApplies(chain, cpd, c, d) ==
    /\ c \notin chain.a \cup chain.b
    /\ d \in cpd[c]
    /\ \E x \in chain.a : Sees(c, x)
    /\ \E x \in chain.b : Sees(c, x)

\* the caches of candidates and of possible positions have consumed both logs
CachesFresh ==
    /\ cell_poss_digits.next_deduced = Len(deduced_entries)
    /\ cell_poss_digits.last_eliminated = Len(eliminated_entries)
    /\ house_poss_positions.next_deduced = Len(deduced_entries)
    /\ house_poss_positions.last_eliminated = Len(eliminated_entries)

\* a step runs find_singles_chain on fresh caches, and it returns Ok
SinglesChainRan ==
    /\ \/ pc = "outer" /\ ~is_solved(Self) /\ strategies[1] = "SinglesChain"
       \/ pc = "rest" /\ strategies[rest_i] = "SinglesChain"
    /\ CachesFresh
    /\ pc' # "panic"
    /\ ~hist'.unsolvable

\* the eliminations the step appends
AppendedEliminations ==
    {eliminated_entries'[i] : i \in Len(eliminated_entries) + 1 .. Len(eliminated_entries')}

\* C25: when find_singles_chain has run on fresh caches, it has appended (c, d) for every
\* digit d, every chain of d and every cell c outside the chain that admits d
\* and sees a chain cell of each colour, and every elimination it has
\* appended for a cell outside the chains of d is one of these
C25_RuleTwoEliminations ==
    [][SinglesChainRan =>
          \A d \in Digit :
              \E chains \in {Chains(house_poss_positions'.state, d)} :
                  /\ \A chain \in chains : \A c \in Cell :
                         RuleTwoApplies(chain, cell_poss_digits'.state, c, d)
                             => Candidate(c, d) \in AppendedEliminations
                  /\ \A e \in AppendedEliminations :
                         (e.digit = d /\ \A chain \in chains : e.cell \notin chain.a \cup chain.b)
                             => \E chain \in chains :
                                    RuleTwoApplies(chain, cell_poss_digits'.state, e.cell, d)]_vars


-----------------------------------------------------------------------------
(* C26: basic fish *)

FishSize(strategy) ==
    IF strategy = "XWing" THEN 2 ELSE IF strategy = "Swordfish" THEN 3 ELSE 4

\* the first strategy of the list is a fish, and the step runs it in
\* exhaustive mode and it returns Ok
FishRan ==
    /\ pc = "outer"
    /\ ~is_solved(Self)
    /\ strategies[1] \in {"XWing", "Swordfish", "Jellyfish"}
    /\ pc' # "panic"
    /\ ~hist'.unsolvable

\* the possible positions of digit d in the lines of S, together
FishPositions(hpp, d, S) == UNION {hpp[line][d] : line \in S}

\* the sets of k lines that form a fish for digit d: each line has at least
\* two possible positions and together they have exactly k
FishSets(hpp, d, lines, k) ==
    {S \in SUBSET lines :
        /\ Cardinality(S) = k
        /\ \A line \in S : Cardinality(hpp[line][d]) >= 2
        /\ Cardinality(FishPositions(hpp, d, S)) = k}

\* what the fish eliminates: d in the cells at the fish's positions of the
\* lines outside S that still admit d
FishEliminations(cpd, d, lines, S, U) ==
    {Candidate(CellAt(t[1], t[2]), d) :
        t \in {t \in (lines \ S) \X U : d \in cpd[CellAt(t[1], t[2])]}}

\* the eliminations in the range of a deduction
RangeOf(record) ==
    {eliminated_entries'[i] : i \in record.conflicts[1] + 1 .. record.conflicts[2]}

\* the step appends a BasicFish deduction for lines S, digit d and positions
\* U whose range holds exactly the eliminations E
FishRecorded(S, d, U, E) ==
    \E i \in Len(deductions) + 1 .. Len(deductions') :
        /\ deductions'[i].kind = "BasicFish"
        /\ deductions'[i].lines = S
        /\ deductions'[i].digit = d
        /\ deductions'[i].positions = U
        /\ RangeOf(deductions'[i]) = E

\* C26: when a fish strategy of size k has run in exhaustive mode, then for
\* every digit, orientation and fish S of k lines with positions U the log
\* holds the elimination of d from every cell at a position of U in a line
\* outside S that admits d, and, when there are any, a BasicFish deduction
\* with lines S, digit d and positions U whose range holds exactly these;
\* no elimination of the step names d in a cell of a line of S
C26_BasicFish ==
    [][FishRan =>
          \A d \in Digit : \A lines \in {ALL_ROWS, ALL_COLS} :
              \A S \in FishSets(house_poss_positions'.state, d, lines,
                                FishSize(strategies[1])) :
                  \E E \in {FishEliminations(cell_poss_digits'.state, d, lines, S,
                                FishPositions(house_poss_positions'.state, d, S))} :
                      /\ E \subseteq AppendedEliminations
                      /\ E # {} =>
                             FishRecorded(S, d,
                                 FishPositions(house_poss_positions'.state, d, S), E)
                      /\ \A e \in AppendedEliminations :
                             e.digit = d => \A line \in S : e.cell \notin HouseCellSet(line)]_vars

\* fish of each size have been recorded with eliminations
FishOfSize(k) ==
    \E i \in 1 .. Len(deductions) :
        /\ deductions[i].kind = "BasicFish"
        /\ Cardinality(deductions[i].lines) = k
        /\ deductions[i].conflicts[2] > deductions[i].conflicts[1]

\* the witnesses of the three sizes
XWingFound == strategies[1] = "XWing" /\ FishOfSize(2)

SwordfishFound == strategies[1] = "Swordfish" /\ FishOfSize(3)

JellyfishFound == strategies[1] = "Jellyfish" /\ FishOfSize(4)

\* C26 happens: the fish strategy at the head of the list has recorded a
\* fish of its size with eliminations
C26_Witness == XWingFound \/ SwordfishFound \/ JellyfishFound


-----------------------------------------------------------------------------
(* C29: the ranges of the elimination deductions *)

\* C29: the ranges of the elimination deductions of the log, in the order
\* of the log, start at 0, each begins where the one before it ends, none
\* is empty and the last ends at the end of eliminated_entries: every index
\* of eliminated_entries lies in exactly one of them
C29_RangesPartition ==
    /\ Len(EliminationDeductions) = 0 => Len(eliminated_entries) = 0
    /\ Len(EliminationDeductions) > 0 =>
          /\ EliminationDeductions[1].conflicts[1] = 0
          /\ EliminationDeductions[Len(EliminationDeductions)].conflicts[2]
                 = Len(eliminated_entries)
    /\ \A i \in 1 .. Len(EliminationDeductions) :
          EliminationDeductions[i].conflicts[1] < EliminationDeductions[i].conflicts[2]
    /\ \A i \in 1 .. Len(EliminationDeductions) - 1 :
          EliminationDeductions[i].conflicts[2] = EliminationDeductions[i + 1].conflicts[1]

\* C29 happens: try_solve has come to its end after find_singles_chain ran
\* last, and the log holds several elimination deductions
C29_Witness ==
    /\ pc = "exit"
    /\ Len(strategies) = 2
    /\ strategies[2] = "SinglesChain"
    /\ ~hist.unsolvable
    /\ ~is_solved(Self)
    /\ Len(EliminationDeductions) >= 2

====
